---- MODULE Spec2Model ----
(***************************************************************************)
(* Personal finance tracker: the normalized SQLite ledger (db.py), the     *)
(* console layer over it (utils.py, PF_Main.py) and the in-memory          *)
(* transaction list (state.py); and the password tool                      *)
(* (Password_Security.py).                                                 *)
(*                                                                         *)
(* The specifications share the definitions below:                         *)
(*   Spec         the ledger functions of db.py called with arbitrary      *)
(*                arguments, storage failures during them, and             *)
(*                deactivation of registry rows;                           *)
(*   SpecAdmin    adds and deletes of transactions between soft and hard   *)
(*                deletes of registry rows;                                *)
(*   SpecCli      one interactive session of PF_Main.main (menu            *)
(*                operations, restart) and calls of                        *)
(*                load_transactions_from_db;                               *)
(*   SpecAmount   one call of get_amount, entry by entry;                  *)
(*   SpecTx       connections executing a mutation statement by statement, *)
(*                with the committed store visible to other connections;   *)
(*   SpecAnalyze  PasswordAnalyzer.analyze_strength on a typed password;   *)
(*   SpecGenerate PasswordGenerator.generate_password, step by step;       *)
(*   SpecStorage  the methods of SimpleStorage on one passwords.json.      *)
(***************************************************************************)
EXTENDS Integers, Sequences, FiniteSets, TLC

(***************************************************************************)
(* Bounds of the model and constants of the program                        *)
(***************************************************************************)

\* Cap on the number of rows ever inserted into transactions (bounds seq).
MaxTxns == 2

\* Cap on the number of operations of one console session (SpecCli).
MaxSteps == 3

\* Depth at which SQLite gives up a chain of nested triggers ("too many levels
\* of trigger recursion"; 1000 in SQLite).
MaxTriggerDepth == 3

\* Cap on the number of entries get_amount answers with a new prompt (SpecAmount).
MaxPrompts == 2

\* Longest password asked of generate_password (SpecGenerate).
MaxLength == 5

\* Number of outcomes considered for one secrets.choice (SpecGenerate).
MaxChoices == 2

\* utils.py:18  abs(amount) >= 100000000  (dollars)
AmountLimit == 100000000

\* db.py:224  the value add_transaction_to_db returns on failure (None is
\* falsy, like 0, in PF_Main's "if transaction_id:"; row ids start at 1).
None == 0

(***************************************************************************)
(* Currency values.  An amount is an exact value in cents, written         *)
(* [d, c] = d dollars + c cents with 0 <= c <= 99 (d may be negative), so  *)
(* that the 100,000,000 dollar limit is representable.                     *)
(***************************************************************************)

Money(d, c) == [d |-> d, c |-> c]

MZero == Money(0, 0)

MAdd(x, y) ==
    LET s == x.c + y.c
    IN  Money(x.d + y.d + (s \div 100), s % 100)

MNeg(x) == IF x.c = 0 THEN Money(-x.d, 0) ELSE Money(-x.d - 1, 100 - x.c)

MSub(x, y) == MAdd(x, MNeg(y))

MAbs(x) == IF x.d < 0 THEN MNeg(x) ELSE x

(***************************************************************************)
(* The store: rows of accounts, categories and transactions, and the       *)
(* AUTOINCREMENT counter of transactions (sqlite_sequence).                *)
(***************************************************************************)

\* ids of the rows of accounts: 1 is 'Main Checking' (insert_default_data),
\* 2 is a second account created by an administrative insert.
AccountIds == {1, 2}

\* ids of the rows of categories (the first two of the fifteen defaults).
CategoryIds == {1, 2}

AccountName(a) == IF a = 1 THEN "Main Checking" ELSE "Savings"

CategoryName(c) == IF c = 1 THEN "Groceries" ELSE "Salary"

\* An id that names no row of accounts or categories.
MissingId == 9

\* Descriptions entered or passed (get_description accepts any non-empty text).
Descriptions == {"Paycheck"}

\* Dates entered at the console, as get_date(...).strftime('%Y-%m-%d') gives them.
Dates == {"2024-01-15", "2024-02-01"}

\* Arguments handed to the ledger functions under Spec: the amounts 0.00,
\* 1500.00 and -42.50, and one date.
AmountArgs == {MZero, Money(1500, 0), Money(-43, 50)}

DateArgs == {"2024-01-15"}

VARIABLES
    db,                 \* the committed content of finance_tracker.db (SpecStorage: of passwords.json)
    state_transactions, \* state.transactions, the in-memory list
    last,               \* the operation just performed: arguments, result, store before it
    issued,             \* ids returned by successful adds, in order
    conn,               \* SpecTx: each connection's open transaction
    steps               \* SpecCli: operations performed in the session so far

vars == <<db, state_transactions, last, issued, conn, steps>>

EmptyRows == [i \in {} |-> i]

\* create_schema + insert_default_data on a fresh file.
InitDb ==
    [accounts     |-> [a \in AccountIds |-> [balance |-> MZero, is_active |-> 1]],
     categories   |-> [c \in CategoryIds |-> [is_active |-> 1]],
     transactions |-> EmptyRows,
     seq          |-> 0]

\* an insert_default_data that writes the default account with INSERT OR REPLACE
insert_default_account_Replace(accounts) ==
    [a \in DOMAIN accounts |->
        IF a = 1 THEN [balance |-> MZero, is_active |-> 1] ELSE accounts[a]]

\* insert_default_data: INSERT OR IGNORE INTO accounts (name, type, balance,
\* ...) VALUES ('Main Checking', 'Checking', 0.00, ...).  name is UNIQUE: when
\* a row of that name exists the INSERT is ignored; otherwise the row is
\* inserted under a new id.
insert_default_account(accounts) ==
    IF \E a \in DOMAIN accounts : AccountName(a) = "Main Checking"
    THEN accounts
    ELSE LET ids == DOMAIN accounts \cup {0}
             id  == (CHOOSE m \in ids : \A i \in ids : i <= m) + 1
         IN  (id :> [balance |-> MZero, is_active |-> 1]) @@ accounts

\* insert_default_data: INSERT OR IGNORE INTO categories (name, type,
\* description) for each default; a default whose name exists is ignored.
insert_default_categories(categories) ==
    LET missing == {c \in CategoryIds : c \notin DOMAIN categories}
    IN  [c \in DOMAIN categories \cup missing |->
            IF c \in DOMAIN categories THEN categories[c] ELSE [is_active |-> 1]]

\* create_schema on a file that has the tables: CREATE TABLE / INDEX / TRIGGER
\* IF NOT EXISTS change nothing; then insert_default_data.
create_schema(D) ==
    [D EXCEPT !.accounts   = insert_default_account(@),
              !.categories = insert_default_categories(@)]

(***************************************************************************)
(* Schema: constraints and triggers (create_schema)                        *)
(***************************************************************************)

\* CHECK(amount != 0), without the constraint
CheckAmount_NoCheck(amount) == TRUE

\* CHECK(amount != 0)
CheckAmount(amount) == amount # MZero

\* INTEGER PRIMARY KEY without AUTOINCREMENT: largest rowid present + 1
NextRowId_MaxPresent(D) ==
    LET ids == DOMAIN D.transactions
    IN  IF ids = {} THEN 1 ELSE (CHOOSE m \in ids : \A i \in ids : i <= m) + 1

\* INTEGER PRIMARY KEY AUTOINCREMENT: largest rowid ever committed + 1
NextRowId(D) == D.seq + 1

\* the insert trigger without "WHERE id = NEW.account_id"
update_balance_on_insert_NoWhere(accounts, new) ==
    [a \in DOMAIN accounts |->
        [accounts[a] EXCEPT !.balance = MAdd(@, new.amount)]]

\* trigger update_balance_on_insert
update_balance_on_insert(accounts, new) ==
    [accounts EXCEPT ![new.account_id].balance = MAdd(@, new.amount)]

\* the update trigger without "- OLD.amount"
update_balance_on_update_NoOld(accounts, old, new) ==
    IF old.account_id = new.account_id
    THEN [accounts EXCEPT ![new.account_id].balance = MAdd(@, new.amount)]
    ELSE accounts

\* trigger update_balance_on_update (AFTER UPDATE OF amount, WHEN OLD.account_id = NEW.account_id)
update_balance_on_update(accounts, old, new) ==
    IF old.account_id = new.account_id
    THEN [accounts EXCEPT ![new.account_id].balance = MAdd(MSub(@, old.amount), new.amount)]
    ELSE accounts

\* a connection with PRAGMA recursive_triggers = ON
recursive_triggers_On == TRUE

\* No connection sets PRAGMA recursive_triggers, so it has SQLite's default,
\* OFF: a trigger that is running is not fired again by a statement of its own
\* body (or of a trigger it fired).
recursive_triggers == FALSE

\* The columns in the SET list of the UPDATE of update_transaction_in_db, and
\* of the UPDATE in the body of the trigger update_transaction_timestamp.
UpdateColumns == {"category_id", "amount", "description", "transaction_date"}

TimestampColumns == {"updated_at"}

\* The AFTER UPDATE triggers of transactions, run for an UPDATE of the columns
\* cols that changed the row old into new, at nesting depth `depth`, while the
\* triggers in `active` are running:
\*   update_balance_on_update   AFTER UPDATE OF amount, WHEN the account stays;
\*   update_transaction_timestamp  AFTER UPDATE (of any column), whose body is
\*       UPDATE transactions SET updated_at = ... WHERE id = NEW.id, an UPDATE
\*       that changes no modelled column and fires the AFTER UPDATE triggers
\*       in its turn.
\* The result: whether the chain ended below MaxTriggerDepth, the accounts
\* table after it, and how often each trigger body ran.
RECURSIVE after_update_triggers(_, _, _, _, _, _)
after_update_triggers(accounts, old, new, cols, active, depth) ==
    IF depth > MaxTriggerDepth
    THEN [ok |-> FALSE, accounts |-> accounts, balance_runs |-> 0, timestamp_runs |-> 0]
    ELSE LET fires   == "amount" \in cols
             bal     == IF fires THEN update_balance_on_update(accounts, old, new)
                        ELSE accounts
             balrun  == IF fires /\ old.account_id = new.account_id THEN 1 ELSE 0
         IN  IF recursive_triggers \/ "update_transaction_timestamp" \notin active
             THEN LET n == after_update_triggers(
                               bal, new, new, TimestampColumns,
                               active \cup {"update_transaction_timestamp"}, depth + 1)
                  IN  [ok |-> n.ok, accounts |-> n.accounts,
                       balance_runs |-> balrun + n.balance_runs,
                       timestamp_runs |-> 1 + n.timestamp_runs]
             ELSE [ok |-> TRUE, accounts |-> bal, balance_runs |-> balrun,
                   timestamp_runs |-> 0]

\* the delete trigger missing
update_balance_on_delete_Missing(accounts, old) == accounts

\* trigger update_balance_on_delete
update_balance_on_delete(accounts, old) ==
    [accounts EXCEPT ![old.account_id].balance = MSub(@, old.amount)]

(***************************************************************************)
(* Statements of db.py                                                     *)
(***************************************************************************)

\* the account lookup without "AND is_active = 1"
AccountActive_IgnoresFlag(D, account_id) == account_id \in DOMAIN D.accounts

\* SELECT id FROM accounts WHERE id = ? AND is_active = 1
AccountActive(D, account_id) ==
    /\ account_id \in DOMAIN D.accounts
    /\ D.accounts[account_id].is_active = 1

\* the category lookup without "AND is_active = 1"
CategoryActive_IgnoresFlag(D, category_id) == category_id \in DOMAIN D.categories

\* SELECT id FROM categories WHERE id = ? AND is_active = 1
CategoryActive(D, category_id) ==
    /\ category_id \in DOMAIN D.categories
    /\ D.categories[category_id].is_active = 1

\* The row an INSERT INTO transactions (...) VALUES (...) stores.
NewRow(account_id, category_id, amount, description, transaction_date) ==
    [account_id       |-> account_id,
     category_id      |-> category_id,
     amount           |-> amount,
     description      |-> description,
     transaction_date |-> transaction_date]

\* INSERT INTO transactions: the row change alone (the row and the sequence).
InsertRow(D, account_id, category_id, amount, description, transaction_date) ==
    LET id  == NextRowId(D)
        new == NewRow(account_id, category_id, amount, description, transaction_date)
    IN  [D EXCEPT !.transactions = (id :> new) @@ @,
                  !.seq          = IF id > @ THEN id ELSE @]

\* INSERT INTO transactions as one statement: the row change and the insert trigger.
InsertStmt(D, account_id, category_id, amount, description, transaction_date) ==
    LET new == NewRow(account_id, category_id, amount, description, transaction_date)
        R   == InsertRow(D, account_id, category_id, amount, description, transaction_date)
    IN  [R EXCEPT !.accounts = update_balance_on_insert(@, new)]

\* an UPDATE whose SET list also binds account_id (to the first parameter)
UpdatedRow_SetsAccount(old, category_id, amount, description, transaction_date) ==
    [old EXCEPT !.account_id       = category_id,
                !.category_id      = category_id,
                !.amount           = amount,
                !.description      = description,
                !.transaction_date = transaction_date]

\* SET category_id = ?, amount = ?, description = ?, transaction_date = ?
UpdatedRow(old, category_id, amount, description, transaction_date) ==
    [old EXCEPT !.category_id      = category_id,
                !.amount           = amount,
                !.description      = description,
                !.transaction_date = transaction_date]

\* UPDATE transactions SET ... WHERE id = ?: the row change alone; no row
\* matches an absent id.
UpdateRow(D, transaction_id, category_id, amount, description, transaction_date) ==
    IF transaction_id \notin DOMAIN D.transactions
    THEN D
    ELSE [D EXCEPT !.transactions[transaction_id] =
                       UpdatedRow(@, category_id, amount, description, transaction_date)]

\* The UPDATE of an existing row and its triggers: the store after them, and
\* whether they end (ok) or fail with "too many levels of trigger recursion".
UpdateOutcome(D, transaction_id, category_id, amount, description, transaction_date) ==
    LET R == UpdateRow(D, transaction_id, category_id, amount,
                       description, transaction_date)
        t == after_update_triggers(R.accounts, D.transactions[transaction_id],
                                   R.transactions[transaction_id],
                                   UpdateColumns, {}, 1)
    IN  [ok |-> t.ok, db |-> [R EXCEPT !.accounts = t.accounts]]

\* UPDATE transactions as one statement: the row change and the update triggers.
UpdateStmt(D, transaction_id, category_id, amount, description, transaction_date) ==
    IF transaction_id \notin DOMAIN D.transactions
    THEN D
    ELSE UpdateOutcome(D, transaction_id, category_id, amount,
                       description, transaction_date).db

\* The triggers of the UPDATE end without "too many levels of trigger recursion".
UpdateTriggersEnd(D, transaction_id, category_id, amount, description, transaction_date) ==
    UpdateOutcome(D, transaction_id, category_id, amount,
                  description, transaction_date).ok

\* DELETE FROM transactions WHERE id = ?: the row change alone.
DeleteRow(D, transaction_id) ==
    [D EXCEPT !.transactions = [i \in DOMAIN @ \ {transaction_id} |-> @[i]]]

\* DELETE FROM transactions as one statement: the row change and the delete trigger.
DeleteStmt(D, transaction_id) ==
    IF transaction_id \notin DOMAIN D.transactions
    THEN D
    ELSE [DeleteRow(D, transaction_id) EXCEPT
              !.accounts = update_balance_on_delete(@, D.transactions[transaction_id])]

\* a rowcount that reports a match for every id
rowcount_AlwaysOne(D, transaction_id) == 1

\* cursor.rowcount after UPDATE/DELETE ... WHERE id = ?
rowcount(D, transaction_id) ==
    IF transaction_id \in DOMAIN D.transactions THEN 1 ELSE 0

(***************************************************************************)
(* The ledger functions of db.py: the value returned and the store         *)
(* committed.  A constraint failure raises sqlite3.IntegrityError, which   *)
(* the handler answers with rollback and the failure value.  `error` is    *)
(* the message printed: "reference" (... not found or inactive),           *)
(* "notfound" (Transaction ID ... not found), "sqlite" (Error ...: {e}).   *)
(***************************************************************************)

Returned(result, D, error) == [result |-> result, db |-> D, error |-> error]

add_transaction_to_db(D, account_id, category_id, amount, description, transaction_date) ==
    IF ~AccountActive(D, account_id)
    THEN Returned(None, D, "reference")
    ELSE IF ~CategoryActive(D, category_id)
    THEN Returned(None, D, "reference")
    ELSE IF ~CheckAmount(amount)
    THEN Returned(None, D, "sqlite")
    ELSE Returned(NextRowId(D),
                  InsertStmt(D, account_id, category_id, amount,
                             description, transaction_date),
                  "none")

update_transaction_in_db(D, transaction_id, category_id, amount, description, transaction_date) ==
    LET present == transaction_id \in DOMAIN D.transactions
        o == UpdateOutcome(D, transaction_id, category_id, amount,
                           description, transaction_date)
    IN  IF ~CategoryActive(D, category_id)
        THEN Returned(FALSE, D, "reference")
        ELSE IF present /\ ~CheckAmount(amount)
        THEN Returned(FALSE, D, "sqlite")
        ELSE IF present /\ ~o.ok
        THEN Returned(FALSE, D, "sqlite")
        ELSE IF rowcount(D, transaction_id) = 0
        THEN Returned(FALSE, D, "notfound")
        ELSE Returned(TRUE, IF present THEN o.db ELSE D, "none")

delete_transaction_from_db(D, transaction_id) ==
    IF rowcount(D, transaction_id) = 0
    THEN Returned(FALSE, D, "notfound")
    ELSE Returned(TRUE, DeleteStmt(D, transaction_id), "none")

(***************************************************************************)
(* Registry administration (spec 4.2): deactivate is a soft delete, an     *)
(* UPDATE of is_active on the registry row; it touches nothing else.       *)
(***************************************************************************)

deactivate_account(D, a) == [D EXCEPT !.accounts[a].is_active = 0]

deactivate_category(D, c) == [D EXCEPT !.categories[c].is_active = 0]

\* a connection opened without the PRAGMA: SQLite's default, foreign keys not enforced
foreign_keys_Off == FALSE

\* get_connection: conn.execute("PRAGMA foreign_keys = ON") on every connection.
foreign_keys == TRUE

\* the transactions table without its foreign key on account_id
AccountReferenced_NoKey(D, a) == FALSE

\* FOREIGN KEY (account_id) REFERENCES accounts(id) ON DELETE RESTRICT:
\* some row of transactions references the account.
AccountReferenced(D, a) ==
    \E i \in DOMAIN D.transactions : D.transactions[i].account_id = a

\* FOREIGN KEY (category_id) REFERENCES categories(id) ON DELETE RESTRICT
CategoryReferenced(D, c) ==
    \E i \in DOMAIN D.transactions : D.transactions[i].category_id = c

\* The rows of a table without the row of key k.
WithoutRow(rows, k) == [x \in DOMAIN rows \ {k} |-> rows[x]]

\* Hard delete, DELETE FROM accounts WHERE id = ?, on a connection of
\* get_connection: "inuse" is sqlite3.IntegrityError (FOREIGN KEY constraint
\* failed), after which nothing of the statement remains.
hard_delete_account(D, a) ==
    IF a \notin DOMAIN D.accounts
    THEN Returned(FALSE, D, "notfound")
    ELSE IF foreign_keys /\ AccountReferenced(D, a)
    THEN Returned(FALSE, D, "inuse")
    ELSE Returned(TRUE, [D EXCEPT !.accounts = WithoutRow(@, a)], "none")

\* Hard delete, DELETE FROM categories WHERE id = ?
hard_delete_category(D, c) ==
    IF c \notin DOMAIN D.categories
    THEN Returned(FALSE, D, "notfound")
    ELSE IF foreign_keys /\ CategoryReferenced(D, c)
    THEN Returned(FALSE, D, "inuse")
    ELSE Returned(TRUE, [D EXCEPT !.categories = WithoutRow(@, c)], "none")

(***************************************************************************)
(* Spec: the ledger functions called with arbitrary arguments              *)
(***************************************************************************)

AccountArgs == AccountIds \cup {MissingId}

CategoryArgs == CategoryIds \cup {MissingId}

TxnIdArgs == 1..MaxTxns

NoConn == [pc |-> "closed"]

Conns == {1, 2}

\* What `last` records about a call: the arguments the claims speak of, the
\* value returned, the message printed and the store as it was before the call.
\* `undone` is set by a delete that directly follows the successful add of the
\* id it deletes: the accounts as they were before that add.
Call(op, id, account_id, category_id, amount, r, pre, undone) ==
    [op |-> op, id |-> id, account_id |-> account_id, category_id |-> category_id,
     amount |-> amount, result |-> r.result, error |-> r.error, pre |-> pre,
     undone |-> undone]

NotUndone == [hit |-> FALSE]

Done(D) == Returned(TRUE, D, "none")

Init ==
    /\ db = InitDb
    /\ state_transactions = <<>>
    /\ last = Call("init", 0, 0, 0, MZero, Done(InitDb), InitDb, NotUndone)
    /\ issued = <<>>
    /\ conn = [k \in Conns |-> NoConn]
    /\ steps = 0

Add(account_id, category_id, amount, description, transaction_date) ==
    LET r == add_transaction_to_db(db, account_id, category_id, amount,
                                   description, transaction_date)
    IN  /\ db.seq < MaxTxns
        /\ db' = r.db
        /\ last' = Call("add", r.result, account_id, category_id, amount, r, db, NotUndone)
        /\ issued' = IF r.result # None THEN Append(issued, r.result) ELSE issued
        /\ UNCHANGED <<state_transactions, conn, steps>>

Update(transaction_id, category_id, amount, description, transaction_date) ==
    LET r == update_transaction_in_db(db, transaction_id, category_id, amount,
                                      description, transaction_date)
    IN  /\ db' = r.db
        /\ last' = Call("update", transaction_id, 0, category_id, amount, r, db, NotUndone)
        /\ UNCHANGED <<state_transactions, issued, conn, steps>>

Delete(transaction_id) ==
    LET r == delete_transaction_from_db(db, transaction_id)
        undone == IF last.op = "add" /\ last.result = transaction_id
                  THEN [hit |-> TRUE, account_id |-> last.account_id,
                        accounts |-> last.pre.accounts]
                  ELSE NotUndone
    IN  /\ db' = r.db
        /\ last' = Call("delete", transaction_id, 0, 0, MZero, r, db, undone)
        /\ UNCHANGED <<state_transactions, issued, conn, steps>>

\* The points of a ledger function at which the storage layer can raise
\* sqlite3.Error: get_connection(), a cursor.execute(), conn.commit().
FailurePoints == {"connect", "execute", "commit"}

\* The failure value of a ledger function.
FailureValue(fn) == IF fn = "add" THEN None ELSE FALSE

\* except sqlite3.Error: print, then "if conn: conn.rollback(); conn.close()",
\* then the failure value.  When get_connection() itself raised, the local
\* conn was never bound and "if conn:" raises UnboundLocalError, which leaves
\* the function.  The store is as before the call: nothing had been committed.
on_sqlite_error(fn, point, D) ==
    IF point = "connect"
    THEN [raised |-> TRUE, result |-> FailureValue(fn), db |-> D, error |-> "UnboundLocalError"]
    ELSE [raised |-> FALSE, result |-> FailureValue(fn), db |-> D, error |-> "sqlite"]

\* A call of add / update / delete during which the storage layer fails.
StorageFailure(fn, point) ==
    LET r == on_sqlite_error(fn, point, db)
    IN  /\ db' = r.db
        /\ last' = [op |-> "storage_failure", fn |-> fn, point |-> point,
                    raised |-> r.raised, result |-> r.result, error |-> r.error,
                    pre |-> db]
        /\ UNCHANGED <<state_transactions, issued, conn, steps>>

DeactivateAccount(a) ==
    /\ a \in DOMAIN db.accounts
    /\ db.accounts[a].is_active = 1
    /\ db' = deactivate_account(db, a)
    /\ last' = Call("deactivate_account", 0, a, 0, MZero, Done(db'), db, NotUndone)
    /\ UNCHANGED <<state_transactions, issued, conn, steps>>

DeactivateCategory(c) ==
    /\ c \in DOMAIN db.categories
    /\ db.categories[c].is_active = 1
    /\ db' = deactivate_category(db, c)
    /\ last' = Call("deactivate_category", 0, 0, c, MZero, Done(db'), db, NotUndone)
    /\ UNCHANGED <<state_transactions, issued, conn, steps>>

Next ==
    \/ \E a \in AccountArgs, c \in CategoryArgs, x \in AmountArgs,
          d \in Descriptions, t \in DateArgs : Add(a, c, x, d, t)
    \/ \E i \in TxnIdArgs, c \in CategoryArgs, x \in AmountArgs,
          d \in Descriptions, t \in DateArgs : Update(i, c, x, d, t)
    \/ \E i \in TxnIdArgs : Delete(i)
    \/ \E a \in AccountIds : DeactivateAccount(a)
    \/ \E c \in CategoryIds : DeactivateCategory(c)
    \/ \E fn \in {"add", "update", "delete"}, point \in FailurePoints :
          StorageFailure(fn, point)

Spec == Init /\ [][Next]_vars

(***************************************************************************)
(* SpecAdmin: the registries administered while the ledger is in use:      *)
(* soft delete (deactivate) and hard delete of accounts and categories,    *)
(* between adds and deletes of transactions.                               *)
(***************************************************************************)

HardDeleteAccount(a) ==
    LET r == hard_delete_account(db, a)
    IN  /\ db' = r.db
        /\ last' = Call("hard_delete_account", 0, a, 0, MZero, r, db, NotUndone)
        /\ UNCHANGED <<state_transactions, issued, conn, steps>>

HardDeleteCategory(c) ==
    LET r == hard_delete_category(db, c)
    IN  /\ db' = r.db
        /\ last' = Call("hard_delete_category", 0, 0, c, MZero, r, db, NotUndone)
        /\ UNCHANGED <<state_transactions, issued, conn, steps>>

\* Amounts of the transactions added under SpecAdmin: 1500.00 and -42.50.
AdminAmountArgs == AmountArgs \ {MZero}

NextAdmin ==
    \/ \E a \in AccountIds, c \in CategoryIds, x \in AdminAmountArgs,
          d \in Descriptions, t \in DateArgs : Add(a, c, x, d, t)
    \/ \E i \in TxnIdArgs : Delete(i)
    \/ \E a \in AccountIds : DeactivateAccount(a)
    \/ \E c \in CategoryIds : DeactivateCategory(c)
    \/ \E a \in AccountIds : HardDeleteAccount(a)
    \/ \E c \in CategoryIds : HardDeleteCategory(c)

SpecAdmin == Init /\ [][NextAdmin]_vars

(***************************************************************************)
(* The console layer (utils.py) and the menu loop (PF_Main.main)           *)
(***************************************************************************)

\* What the user types at an amount prompt, after '$' and ',' are stripped:
\* d dollars + m thousandths, 0 <= m <= 999 (d may be negative).
Raw(d, m) == [d |-> d, m |-> m]

\* "0", "0.001", "-42.50", "99999999.999", "100000000"
AmountInputs ==
    {Raw(0, 0), Raw(0, 1), Raw(-43, 500), Raw(AmountLimit - 1, 999), Raw(AmountLimit, 0)}

\* amount == 0
RawIsZero(x) == x.d = 0 /\ x.m = 0

\* abs(amount) >= 100000000
RawAtOrOverLimit(x) ==
    \/ x.d >= AmountLimit
    \/ x.d < -AmountLimit
    \/ (x.d = -AmountLimit /\ x.m = 0)

\* round(amount, 2), for inputs that are not ties (m % 10 # 5)
round2(x) ==
    LET c == (x.m + 5) \div 10
    IN  IF c = 100 THEN Money(x.d + 1, 0) ELSE Money(x.d, c)

\* get_amount returns on the first input that passes both tests; every other
\* input is answered with a message and a new prompt.
get_amount_accepts(x) == ~RawIsZero(x) /\ ~RawAtOrOverLimit(x)

get_amount(x) == round2(x)

\* get_account / get_category: the rows offered for selection.
get_account_choices(D) == {a \in DOMAIN D.accounts : D.accounts[a].is_active = 1}

get_category_choices(D) == {c \in DOMAIN D.categories : D.categories[c].is_active = 1}

\* The dict PF_Main builds for a new transaction (and load_transactions_from_db per row).
Record(id, amount, description, category_id, date, account_id) ==
    [ID          |-> id,
     Amount      |-> amount,
     Description |-> description,
     Category    |-> CategoryName(category_id),
     Date        |-> date,
     Account     |-> AccountName(account_id),
     AccountID   |-> account_id,
     CategoryID  |-> category_id]

\* TEXT dates 'YYYY-MM-DD' compare as strings, which is the order of the days:
\* the day number yyyymmdd of a date.
DateOrdinal(t) ==
    CASE t = "2024-01-15" -> 20240115
      [] t = "2024-02-01" -> 20240201

\* the joins restricted to active registry rows (AND c.is_active = 1 AND a.is_active = 1)
JoinedIds_ActiveOnly(D) ==
    {i \in DOMAIN D.transactions :
        /\ D.transactions[i].category_id \in DOMAIN D.categories
        /\ D.categories[D.transactions[i].category_id].is_active = 1
        /\ D.transactions[i].account_id \in DOMAIN D.accounts
        /\ D.accounts[D.transactions[i].account_id].is_active = 1}

\* FROM transactions t JOIN categories c ON t.category_id = c.id
\*                     JOIN accounts a ON t.account_id = a.id
\* (inner joins; no condition on is_active): the ids of the rows selected.
JoinedIds(D) ==
    {i \in DOMAIN D.transactions :
        /\ D.transactions[i].category_id \in DOMAIN D.categories
        /\ D.transactions[i].account_id \in DOMAIN D.accounts}

\* ORDER BY t.transaction_date DESC alone: rows of one date in any order
OrderBy_DateOnly(D, i, j) ==
    DateOrdinal(D.transactions[i].transaction_date) >
        DateOrdinal(D.transactions[j].transaction_date)

\* ORDER BY t.transaction_date DESC, t.id DESC: row i sorts before row j.
OrderBy(D, i, j) ==
    LET di == DateOrdinal(D.transactions[i].transaction_date)
        dj == DateOrdinal(D.transactions[j].transaction_date)
    IN  di > dj \/ (di = dj /\ i > j)

\* The orders in which the SELECT may deliver the joined rows: no row is
\* delivered after a row it sorts before.
SelectOrders(D) ==
    LET ids == JoinedIds(D)
        n   == Cardinality(ids)
    IN  {s \in [1..n -> ids] :
            /\ \A p, q \in 1..n : p # q => s[p] # s[q]
            /\ \A p, q \in 1..n : p < q => ~OrderBy(D, s[q], s[p])}

\* The dict built for row i of the result.
RowRecord(D, i) ==
    LET t == D.transactions[i]
    IN  Record(i, t.amount, t.description, t.category_id, t.transaction_date,
               t.account_id)

\* load_transactions_from_db: the lists it can return on store D.
load_transactions_from_db(D) ==
    {[p \in DOMAIN s |-> RowRecord(D, s[p])] : s \in SelectOrders(D)}


\* list.insert(0, x)
InsertFirst(list, x) == <<x>> \o list

\* list.remove(x): drops the first element equal to x.
RemoveFirst(list, x) ==
    LET k == CHOOSE i \in DOMAIN list :
                 list[i] = x /\ \A j \in 1..(i - 1) : list[j] # x
    IN  [i \in 1..(Len(list) - 1) |-> IF i < k THEN list[i] ELSE list[i + 1]]

\* get_transaction_id: the index of the first record whose ID is the number
\* entered; ids not in the list are answered with a new prompt.
get_transaction_id(list, transaction_id) ==
    CHOOSE i \in DOMAIN list :
        list[i].ID = transaction_id /\ \A j \in 1..(i - 1) : list[j].ID # transaction_id

ListedIds(list) == {list[i].ID : i \in DOMAIN list}

RECURSIVE SumList(_)
SumList(list) ==
    IF list = <<>> THEN MZero ELSE MAdd(Head(list).Amount, SumList(Tail(list)))

\* display_transactions: the net amount it prints.
display_transactions(list) == SumList(list)

\* a display that turns the list around in place (list.reverse()) to print it
ViewedList_Reversed(list) == [i \in DOMAIN list |-> list[Len(list) + 1 - i]]

\* display_transactions: state.transactions after the call.  The loop reads
\* each dict (amount = float(transaction['Amount']) is a local) and assigns
\* to none.
ViewedList(list) == list

\* An answer to "Edit ...? (y/n)": no, or yes with the value then entered.
Keep == [edit |-> FALSE]

Change(v) == [edit |-> TRUE, value |-> v]

Answers(S) == {Keep} \cup {Change(v) : v \in S}

\* edit_transaction: the selected dict after the prompts.  It is the dict held
\* in state.transactions, changed in place.
EditedRecord(sel, pa, pd, pc, pt) ==
    [sel EXCEPT
        !.Amount      = IF pa.edit THEN get_amount(pa.value) ELSE @,
        !.Description = IF pd.edit THEN pd.value ELSE @,
        !.Category    = IF pc.edit THEN CategoryName(pc.value) ELSE @,
        !.CategoryID  = IF pc.edit THEN pc.value ELSE @,
        !.Date        = IF pt.edit THEN pt.value ELSE @]

\* One more operation of the session.
Step == steps < MaxSteps /\ steps' = steps + 1

MenuAdd(account_id, raw, description, category_id, date) ==
    /\ Step
    /\ db.seq < MaxTxns
    /\ account_id \in get_account_choices(db)
    /\ get_amount_accepts(raw)
    /\ category_id \in get_category_choices(db)
    /\ LET amount == get_amount(raw)
           r == add_transaction_to_db(db, account_id, category_id, amount,
                                      description, date)
       IN  /\ db' = r.db
           /\ state_transactions' =
                  IF r.result # None
                  THEN InsertFirst(state_transactions,
                                   Record(r.result, amount, description,
                                          category_id, date, account_id))
                  ELSE state_transactions
           /\ last' = Call("menu_add", r.result, account_id, category_id, amount,
                           r, db, NotUndone)
           /\ issued' = IF r.result # None THEN Append(issued, r.result) ELSE issued
    /\ UNCHANGED conn

\* "No accounts found!" / "No categories found!": back to the menu.
MenuAddNothingToSelect ==
    /\ Step
    /\ get_account_choices(db) = {} \/ get_category_choices(db) = {}
    /\ last' = Call("menu_add_none", 0, 0, 0, MZero, Returned(None, db, "none"),
                    db, NotUndone)
    /\ UNCHANGED <<db, state_transactions, issued, conn>>

MenuView ==
    /\ Step
    /\ last' = Call("menu_view", 0, 0, 0, display_transactions(state_transactions),
                    Done(db), db, NotUndone)
    /\ state_transactions' = ViewedList(state_transactions)
    /\ UNCHANGED <<db, issued, conn>>

MenuSearch(transaction_id) ==
    /\ Step
    /\ transaction_id \in ListedIds(state_transactions)
    /\ last' = Call("menu_search", transaction_id, 0, 0, MZero, Done(db), db, NotUndone)
    /\ UNCHANGED <<db, state_transactions, issued, conn>>

\* What `last` records about a call of load_transactions_from_db: the list
\* returned, the store before the call and, when the call directly follows
\* another call of it, the list that call returned.
Loaded(result, pre, again) ==
    [op |-> "load", result |-> result, pre |-> pre, again |-> again]

NotAgain == [hit |-> FALSE]

\* load_transactions_from_db is called (by main at start-up, or by any other
\* caller of db.py); its result is a local list, state.transactions is not
\* touched by the call.
Load ==
    /\ \E list \in load_transactions_from_db(db) :
           last' = Loaded(list, db,
                          IF last.op = "load"
                          THEN [hit |-> TRUE, result |-> last.result]
                          ELSE NotAgain)
    /\ UNCHANGED <<db, state_transactions, issued, conn, steps>>

MenuEdit(transaction_id, pa, pd, pc, pt) ==
    /\ Step
    /\ transaction_id \in ListedIds(state_transactions)
    /\ pa.edit => get_amount_accepts(pa.value)
    /\ pc.edit => pc.value \in get_category_choices(db)
    /\ pa.edit \/ pd.edit \/ pc.edit \/ pt.edit
    /\ LET k   == get_transaction_id(state_transactions, transaction_id)
           sel == EditedRecord(state_transactions[k], pa, pd, pc, pt)
           r   == update_transaction_in_db(db, sel.ID, sel.CategoryID, sel.Amount,
                                           sel.Description, sel.Date)
       IN  /\ db' = r.db
           /\ state_transactions' = [state_transactions EXCEPT ![k] = sel]
           /\ last' = Call("menu_edit", sel.ID, sel.AccountID, sel.CategoryID,
                           sel.Amount, r, db, NotUndone)
    /\ UNCHANGED <<issued, conn>>

\* Every "Edit ...?" answered no (or "Edit category?" yes with no active
\* category to choose): "No changes made."
MenuEditNoChanges(transaction_id, wantsCategory) ==
    /\ Step
    /\ transaction_id \in ListedIds(state_transactions)
    /\ wantsCategory => get_category_choices(db) = {}
    /\ last' = Call("menu_edit_none", transaction_id, 0, 0, MZero,
                    Returned(FALSE, db, "none"), db, NotUndone)
    /\ UNCHANGED <<db, state_transactions, issued, conn>>

MenuDelete(transaction_id, sure) ==
    /\ Step
    /\ transaction_id \in ListedIds(state_transactions)
    /\ LET k == get_transaction_id(state_transactions, transaction_id)
           r == IF sure
                THEN delete_transaction_from_db(db, state_transactions[k].ID)
                ELSE Returned(FALSE, db, "none")
       IN  /\ db' = r.db
           /\ state_transactions' =
                  IF r.result
                  THEN RemoveFirst(state_transactions, state_transactions[k])
                  ELSE state_transactions
           /\ last' = Call("menu_delete", transaction_id, 0, 0, MZero, r, db, NotUndone)
    /\ UNCHANGED <<issued, conn>>

\* A registry row is deactivated while the session runs.
CliDeactivateCategory(c) ==
    /\ Step
    /\ db.categories[c].is_active = 1
    /\ db' = deactivate_category(db, c)
    /\ last' = Call("deactivate_category", 0, 0, c, MZero, Done(db'), db, NotUndone)
    /\ UNCHANGED <<state_transactions, issued, conn>>

CliDeactivateAccount(a) ==
    /\ Step
    /\ db.accounts[a].is_active = 1
    /\ db' = deactivate_account(db, a)
    /\ last' = Call("deactivate_account", 0, a, 0, MZero, Done(db'), db, NotUndone)
    /\ UNCHANGED <<state_transactions, issued, conn>>

\* The program is left (Exit) and started again: main runs create_schema and
\* assigns the list load_transactions_from_db returns to state.transactions.
MenuExitAndStart ==
    /\ Step
    /\ db' = create_schema(db)
    /\ \E list \in load_transactions_from_db(db') : state_transactions' = list
    /\ last' = Call("startup", 0, 0, 0, MZero, Done(db'), db, NotUndone)
    /\ UNCHANGED <<issued, conn>>

AcceptedInputs == {x \in AmountInputs : get_amount_accepts(x)}

NextCli ==
    \/ \E a \in get_account_choices(db), x \in AcceptedInputs, d \in Descriptions,
          c \in get_category_choices(db), t \in Dates : MenuAdd(a, x, d, c, t)
    \/ MenuAddNothingToSelect
    \/ MenuView
    \/ \E i \in ListedIds(state_transactions) : MenuSearch(i)
    \/ Load
    \/ \E i \in ListedIds(state_transactions), pa \in Answers(AcceptedInputs),
          pd \in Answers(Descriptions), pc \in Answers(get_category_choices(db)),
          pt \in Answers(Dates) : MenuEdit(i, pa, pd, pc, pt)
    \/ \E i \in ListedIds(state_transactions), w \in BOOLEAN : MenuEditNoChanges(i, w)
    \/ \E i \in ListedIds(state_transactions), sure \in BOOLEAN : MenuDelete(i, sure)
    \/ \E c \in CategoryIds : CliDeactivateCategory(c)
    \/ \E a \in AccountIds : CliDeactivateAccount(a)
    \/ MenuExitAndStart

SpecCli == Init /\ [][NextCli]_vars

(***************************************************************************)
(* SpecAmount: one call of get_amount, entry by entry.  An entry is the    *)
(* text typed at the prompt: a number, possibly written with '$' and ','   *)
(* ("$1,500.00"), the text "nan", or text that is no number ("abc").       *)
(***************************************************************************)

AmountText(kind, decorated, raw) == [kind |-> kind, decorated |-> decorated, raw |-> raw]

\* "0", "$0.00", "100000000", "-100,000,000", "abc",
\* "0.001", "-42.50", "$1,500.00", "99999999.999", "nan"
AmountTexts ==
    {AmountText("number", FALSE, Raw(0, 0)),
     AmountText("number", TRUE, Raw(0, 0)),
     AmountText("number", FALSE, Raw(AmountLimit, 0)),
     AmountText("number", TRUE, Raw(-AmountLimit, 0)),
     AmountText("text", FALSE, Raw(0, 0)),
     AmountText("number", FALSE, Raw(0, 1)),
     AmountText("number", FALSE, Raw(-43, 500)),
     AmountText("number", TRUE, Raw(1500, 0)),
     AmountText("number", FALSE, Raw(AmountLimit - 1, 999)),
     AmountText("nan", FALSE, Raw(0, 0))}

\* input(prompt).replace('$', '').replace(',', '')
StripDecoration(t) == [t EXCEPT !.decorated = FALSE]

\* float(amount_str) raises ValueError: the text is no number (as is every
\* text with a '$' or ',' left in it).
FloatRaises(t) == t.kind = "text" \/ t.decorated

\* One pass of the loop of get_amount on the entry t: whether it returns, and
\* the value it returns.  float('nan') is neither == 0 nor >= 100000000, and
\* round(nan, 2) is nan.
get_amount_pass(t) ==
    LET s == StripDecoration(t)
    IN  IF FloatRaises(s)
        THEN [returns |-> FALSE, nan |-> FALSE, value |-> MZero]
        ELSE IF s.kind = "nan"
        THEN [returns |-> TRUE, nan |-> TRUE, value |-> MZero]
        ELSE IF ~get_amount_accepts(s.raw)
        THEN [returns |-> FALSE, nan |-> FALSE, value |-> MZero]
        ELSE [returns |-> TRUE, nan |-> FALSE, value |-> get_amount(s.raw)]

\* What `last` records about the call: the entries answered with a new prompt
\* so far, the entry just made, and the outcome of the pass on it.
AmountCall(tried, entry, r) ==
    [op |-> "get_amount", tried |-> tried, entry |-> entry,
     returned |-> r.returns, nan |-> r.nan, value |-> r.value]

\* The entries answered with a new prompt so far in the call.
Tried == IF last.op = "get_amount" THEN last.tried ELSE <<>>

\* The user makes one more entry at the prompt of a call that has not returned.
AmountPrompt(t) ==
    /\ last.op = "get_amount" => ~last.returned
    /\ Len(Tried) < MaxPrompts \/ get_amount_pass(t).returns
    /\ LET r == get_amount_pass(t)
       IN  last' = AmountCall(IF r.returns THEN Tried ELSE Append(Tried, t), t, r)
    /\ UNCHANGED <<db, state_transactions, issued, conn, steps>>

NextAmount == \E t \in AmountTexts : AmountPrompt(t)

SpecAmount == Init /\ [][NextAmount]_vars

(***************************************************************************)
(* SpecTx: a mutation statement by statement.  sqlite3 opens a transaction *)
(* before the INSERT/UPDATE/DELETE; the statement changes the row and then *)
(* runs the AFTER trigger, both in the connection's own view; conn.commit()*)
(* publishes that view, conn.rollback() (the except branch) drops it.      *)
(* Other connections read the committed store.  One connection at a time   *)
(* holds the write lock of the file.                                       *)
(***************************************************************************)

Statement(kind, id, account_id, category_id, amount, description, transaction_date) ==
    [kind |-> kind, id |-> id, account_id |-> account_id, category_id |-> category_id,
     amount |-> amount, description |-> description, transaction_date |-> transaction_date]

\* The statement passes the checks that precede it and matches a row, so that
\* the function goes on to execute it and commit.
Executes(D, st) ==
    CASE st.kind = "insert" ->
             /\ D.seq < MaxTxns
             /\ AccountActive(D, st.account_id)
             /\ CategoryActive(D, st.category_id)
             /\ CheckAmount(st.amount)
      [] st.kind = "update" ->
             /\ CategoryActive(D, st.category_id)
             /\ rowcount(D, st.id) = 1
             /\ CheckAmount(st.amount)
      [] st.kind = "delete" -> rowcount(D, st.id) = 1

\* The row change of the statement, before its trigger has run.
RowChange(D, st) ==
    CASE st.kind = "insert" ->
             InsertRow(D, st.account_id, st.category_id, st.amount,
                       st.description, st.transaction_date)
      [] st.kind = "update" ->
             UpdateRow(D, st.id, st.category_id, st.amount,
                       st.description, st.transaction_date)
      [] st.kind = "delete" -> DeleteRow(D, st.id)

\* balances kept by the application after the commit instead of by triggers
Trigger_Skipped(accounts, pre, st) == accounts

\* The AFTER trigger of the statement: `pre` is the store before the row
\* change (OLD), `accounts` the accounts table the trigger updates.
Trigger(accounts, pre, st) ==
    CASE st.kind = "insert" ->
             update_balance_on_insert(accounts,
                 NewRow(st.account_id, st.category_id, st.amount,
                        st.description, st.transaction_date))
      [] st.kind = "update" ->
             after_update_triggers(accounts, pre.transactions[st.id],
                 UpdatedRow(pre.transactions[st.id], st.category_id, st.amount,
                            st.description, st.transaction_date),
                 UpdateColumns, {}, 1).accounts
      [] st.kind = "delete" ->
             update_balance_on_delete(accounts, pre.transactions[st.id])

\* a commit issued as soon as the row is written, the balance left to a later step
CommitReady_BeforeTrigger(pc) == pc \in {"row", "stmt"}

\* conn.commit() follows cursor.execute(), which returns when the statement,
\* triggers included, has run.
CommitReady(pc) == pc = "stmt"

\* What `last` records under SpecTx.
\* The connection that made the latest commit before the event (0: none yet).
Committed ==
    IF last.op = "init" THEN 0
    ELSE IF last.op = "commit" THEN last.k
    ELSE last.committed

Event(op, k, stmt, pre, seen, during) ==
    [op |-> op, k |-> k, stmt |-> stmt, pre |-> pre, seen |-> seen, during |-> during,
     committed |-> Committed]

TxExecute(k, st) ==
    /\ \A j \in Conns : conn[j].pc = "closed"
    /\ Executes(db, st)
    /\ conn' = [conn EXCEPT ![k] = [pc |-> "row", stmt |-> st, pre |-> db,
                                    work |-> RowChange(db, st)]]
    /\ last' = Event("execute", k, st, db, db, "row")
    /\ UNCHANGED <<db, state_transactions, issued, steps>>

TxTrigger(k) ==
    /\ conn[k].pc = "row"
    /\ conn' = [conn EXCEPT ![k].pc = "stmt",
                            ![k].work.accounts = Trigger(@, conn[k].pre, conn[k].stmt)]
    /\ last' = Event("trigger", k, conn[k].stmt, conn[k].pre, db, "stmt")
    /\ UNCHANGED <<db, state_transactions, issued, steps>>

TxCommit(k) ==
    /\ conn[k].pc # "closed"
    /\ CommitReady(conn[k].pc)
    /\ db' = conn[k].work
    /\ conn' = [conn EXCEPT ![k] = NoConn]
    /\ last' = Event("commit", k, conn[k].stmt, conn[k].pre, db', "closed")
    /\ UNCHANGED <<state_transactions, issued, steps>>

\* sqlite3.Error while the statement runs or at commit: the except branch.
TxRollback(k) ==
    /\ conn[k].pc # "closed"
    /\ conn' = [conn EXCEPT ![k] = NoConn]
    /\ last' = Event("rollback", k, conn[k].stmt, conn[k].pre, db, conn[k].pc)
    /\ UNCHANGED <<db, state_transactions, issued, steps>>

\* Another connection reads the store (load_transactions_from_db, get_account).
TxRead(k) ==
    /\ conn[k].pc = "closed"
    /\ \E j \in Conns \ {k} :
           last' = Event("read", k,
                         IF conn[j].pc = "closed" THEN NoConn ELSE conn[j].stmt,
                         db, db, conn[j].pc)
    /\ UNCHANGED <<db, conn, state_transactions, issued, steps>>

\* The statements of db.py with their bound parameters; a field a statement
\* does not bind is left at 0 / 0.00 / "".
Statements ==
    {Statement("insert", 0, a, c, x, d, t) :
        a \in AccountIds, c \in CategoryIds, x \in AmountArgs,
        d \in Descriptions, t \in DateArgs}
    \cup
    {Statement("update", i, 0, c, x, d, t) :
        i \in TxnIdArgs, c \in CategoryIds, x \in AmountArgs,
        d \in Descriptions, t \in DateArgs}
    \cup
    {Statement("delete", i, 0, 0, MZero, "", "") : i \in TxnIdArgs}

NextTx ==
    \/ \E k \in Conns, st \in Statements : TxExecute(k, st)
    \/ \E k \in Conns : TxTrigger(k)
    \/ \E k \in Conns : TxCommit(k)
    \/ \E k \in Conns : TxRollback(k)
    \/ \E k \in Conns : TxRead(k)

SpecTx == Init /\ [][NextTx]_vars

(***************************************************************************)
(* Password_Security.py.  A text (a Python str) is a sequence of Unicode   *)
(* code points; the printable ASCII characters are written as one-letter   *)
(* strings and turned into code points by Text.                            *)
(***************************************************************************)

\* The characters of code points 32..126, in order (the grave accent, which a
\* string cannot hold, by its name).
Ascii ==
    << " ", "!", "\"", "#", "$", "%", "&", "'", "(", ")", "*", "+", ",", "-", ".", "/",
       "0", "1", "2", "3", "4", "5", "6", "7", "8", "9", ":", ";", "<", "=", ">", "?",
       "@", "A", "B", "C", "D", "E", "F", "G", "H", "I", "J", "K", "L", "M", "N", "O",
       "P", "Q", "R", "S", "T", "U", "V", "W", "X", "Y", "Z", "[", "\\", "]", "^", "_",
       "GRAVE", "a", "b", "c", "d", "e", "f", "g", "h", "i", "j", "k", "l", "m", "n", "o",
       "p", "q", "r", "s", "t", "u", "v", "w", "x", "y", "z", "{", "|", "}", "~" >>

\* ord(c) of a printable ASCII character
Ord(c) == 31 + CHOOSE i \in DOMAIN Ascii : Ascii[i] = c

Text(s) == [i \in DOMAIN s |-> Ord(s[i])]

\* str.lower() of one character: the ASCII and Latin-1 capitals move to their
\* small letters, KELVIN SIGN (U+212A) becomes 'k', LATIN CAPITAL LETTER I WITH
\* DOT ABOVE (U+0130) becomes 'i' followed by COMBINING DOT ABOVE; every other
\* character of the texts used here is its own lowercase form.
lower_char(c) ==
    IF c \in 65..90 THEN <<c + 32>>
    ELSE IF c \in 192..222 /\ c # 215 THEN <<c + 32>>
    ELSE IF c = 8490 THEN <<107>>
    ELSE IF c = 304 THEN <<105, 775>>
    ELSE <<c>>

RECURSIVE lower(_)
lower(t) == IF t = <<>> THEN <<>> ELSE lower_char(Head(t)) \o lower(Tail(t))

\* PasswordAnalyzer.__init__
common_passwords ==
    { Text(<<"p", "a", "s", "s", "w", "o", "r", "d">>),
      Text(<<"1", "2", "3", "4", "5", "6">>),
      Text(<<"1", "2", "3", "4", "5", "6", "7", "8", "9">>),
      Text(<<"q", "w", "e", "r", "t", "y">>),
      Text(<<"a", "b", "c", "1", "2", "3">>),
      Text(<<"p", "a", "s", "s", "w", "o", "r", "d", "1", "2", "3">>),
      Text(<<"a", "d", "m", "i", "n">>),
      Text(<<"l", "e", "t", "m", "e", "i", "n">>),
      Text(<<"w", "e", "l", "c", "o", "m", "e">>),
      Text(<<"1", "2", "3", "4", "5", "6", "7", "8", "9", "0">>),
      Text(<<"m", "o", "n", "k", "e", "y">>),
      Text(<<"d", "r", "a", "g", "o", "n">>),
      Text(<<"p", "a", "s", "s">>),
      Text(<<"m", "u", "s", "t", "a", "n", "g">>),
      Text(<<"m", "a", "s", "t", "e", "r">>) }

\* r'[a-z]', r'[A-Z]', r'\d' (the decimal digits of Unicode: the ASCII ones
\* and, in the texts used here, the ARABIC-INDIC ones), r'[!@#$%^&*(),.?":{}|<>]'
has_lower(password) == \E i \in DOMAIN password : password[i] \in 97..122

has_upper(password) == \E i \in DOMAIN password : password[i] \in 65..90

has_digit(password) ==
    \E i \in DOMAIN password : password[i] \in 48..57 \/ password[i] \in 1632..1641

Specials ==
    {Ord(c) : c \in {"!", "@", "#", "$", "%", "^", "&", "*", "(", ")", ",", ".", "?", "\"", ":", "{", "}", "|", "<", ">"}}

has_special(password) == \E i \in DOMAIN password : password[i] \in Specials

\* r'(.)\1{2,}': a character other than newline, three times in a row
repeated_chars(password) ==
    \E i \in 1..(Len(password) - 2) :
        /\ password[i] # 10
        /\ password[i + 1] = password[i]
        /\ password[i + 2] = password[i]

\* r'(012|123|234|345|456|567|678|789|890)'
SequentialNumbers == {<<48 + k, 48 + ((k + 1) % 10), 48 + ((k + 2) % 10)>> : k \in 0..8}

sequential_numbers(password) ==
    \E i \in 1..(Len(password) - 2) : SubSeq(password, i, i + 2) \in SequentialNumbers

\* r'(abc|bcd|cde|def|efg|fgh)', searched in password.lower()
SequentialLetters == {<<97 + k, 98 + k, 99 + k>> : k \in 0..5}

sequential_letters(password) ==
    LET l == lower(password)
    IN  \E i \in 1..(Len(l) - 2) : SubSeq(l, i, i + 2) \in SequentialLetters

\* a dictionary check that leaves the score of a common password as it is
cap_common_score_NoCap(score) == score

\* score = min(score, 25)
cap_common_score(score) == IF score < 25 THEN score ELSE 25

strength_level(score) ==
    IF score >= 85 THEN "Excellent"
    ELSE IF score >= 70 THEN "Very Strong"
    ELSE IF score >= 55 THEN "Strong"
    ELSE IF score >= 40 THEN "Moderate"
    ELSE IF score >= 25 THEN "Weak"
    ELSE "Very Weak"

\* PasswordAnalyzer.analyze_strength: the dictionary it returns.
analyze_strength(password) ==
    LET length == Len(password)
        length_score  == IF length >= 16 THEN 30
                         ELSE IF length >= 12 THEN 25
                         ELSE IF length >= 8 THEN 15 ELSE 0
        length_fb     == IF length >= 12 THEN <<>>
                         ELSE IF length >= 8 THEN <<"longer">> ELSE <<"too short">>
        l == has_lower(password)
        u == has_upper(password)
        d == has_digit(password)
        s == has_special(password)
        char_types == (IF l THEN 1 ELSE 0) + (IF u THEN 1 ELSE 0)
                      + (IF d THEN 1 ELSE 0) + (IF s THEN 1 ELSE 0)
        rep  == repeated_chars(password)
        nums == sequential_numbers(password)
        lets == sequential_letters(password)
        common == lower(password) \in common_passwords
        before == length_score
                  + (IF l THEN 10 ELSE 0) + (IF u THEN 10 ELSE 0)
                  + (IF d THEN 10 ELSE 0) + (IF s THEN 15 ELSE 0)
                  + (IF char_types >= 3 THEN 10 ELSE 0)
                  + (IF rep THEN 0 ELSE 5) + (IF nums THEN 0 ELSE 5)
                  + (IF lets THEN 0 ELSE 5)
        score == IF common THEN cap_common_score(before) ELSE before + 10
        feedback == length_fb
                    \o (IF l THEN <<>> ELSE <<"lowercase">>)
                    \o (IF u THEN <<>> ELSE <<"uppercase">>)
                    \o (IF d THEN <<>> ELSE <<"numbers">>)
                    \o (IF s THEN <<>> ELSE <<"special">>)
                    \o (IF rep THEN <<"repeating">> ELSE <<>>)
                    \o (IF nums THEN <<"sequential numbers">> ELSE <<>>)
                    \o (IF lets THEN <<"sequential letters">> ELSE <<>>)
                    \o (IF common THEN <<"common">> ELSE <<>>)
    IN  [score |-> score, strength |-> strength_level(score), feedback |-> feedback,
         length |-> length, char_types |-> char_types]

(***************************************************************************)
(* SpecAnalyze: option 1 of Password_Security.main.  The password typed at *)
(* the prompt is any spelling of a common password (each letter small,     *)
(* capital or, for 'k', the KELVIN SIGN), one of a list of other           *)
(* passwords, or nothing.                                                  *)
(***************************************************************************)

\* The characters whose lowercase form is the character c.
Spellings(c) ==
    IF c \in 97..122
    THEN {c, c - 32} \cup (IF c = 107 THEN {8490} ELSE {})
    ELSE {c}

RECURSIVE CaseVariants(_)
CaseVariants(w) ==
    IF w = <<>> THEN {<<>>}
    ELSE {<<c>> \o v : c \in Spellings(Head(w)), v \in CaseVariants(Tail(w))}

OtherPasswords ==
    { Text(<<"a">>),
      Text(<<"a", "a", "a">>),
      Text(<<"X", "k", "7", "!", "X", "k", "7", "!", "X", "k", "7", "!", "X", "k", "7", "!">>),
      Text(<<"a", "B", "3", "!", "x", "Y", "7", "?", "k", "L", "9", "#", "m", "N", "2", "$">>),
      Text(<<"a", "b", "c", "d", "e", "f", "g", "h">>),
      Text(<<"T", "r", "0", "u", "b", "4", "d", "o", "r", "&", "3">>),
      Text(<<"c", "o", "r", "r", "e", "c", "t", "h", "o", "r", "s", "e", "b", "a", "t", "t", "e", "r", "y">>),
      Text(<<"S", "e", "c", "u", "r", "3", "P", "@", "s", "s">>),
      Text(<<"z", "z", "z", "1", "1", "1", "Z", "Z", "Z">>),
      Text(<<"x", "7">>),
      Text(<<"S", "u", "m", "m", "e", "r", "2", "0", "2", "4", "!", "!">>),
      Text(<<"p", "a", "s", "s", "w", "o", "r", "d", "1">>),
      Text(<<"M", "y", "D", "o", "g", "$", "N", "a", "m", "e", "_", "I", "s", "_", "R", "e", "x", "9", "9">>),
      <<304>>, <<112, 228, 115, 115, 119, 246, 114, 100>>, <<1633, 1634, 1635, 97, 66>> }

AnalyzerPasswords ==
    UNION {CaseVariants(w) : w \in common_passwords} \cup OtherPasswords \cup {<<>>}

Typed(password) == [op |-> "getpass", password |-> password]

InitAnalyze ==
    /\ db = InitDb
    /\ state_transactions = <<>>
    /\ last \in {Typed(p) : p \in AnalyzerPasswords}
    /\ issued = <<>>
    /\ conn = [k \in Conns |-> NoConn]
    /\ steps = 0

\* "No password entered"
AnalyzeNothing ==
    /\ last.op = "getpass"
    /\ last.password = <<>>
    /\ last' = [op |-> "no_password", password |-> last.password]
    /\ UNCHANGED <<db, state_transactions, issued, conn, steps>>

\* analyzer.analyze_strength(password), then the report 'Score: N/100'
AnalyzePassword ==
    /\ last.op = "getpass"
    /\ last.password # <<>>
    /\ last' = [op |-> "analyze_strength", password |-> last.password,
                result |-> analyze_strength(last.password)]
    /\ UNCHANGED <<db, state_transactions, issued, conn, steps>>

NextAnalyze == AnalyzeNothing \/ AnalyzePassword

SpecAnalyze == InitAnalyze /\ [][NextAnalyze]_vars

(***************************************************************************)
(* SpecGenerate: option 2 of Password_Security.main, step by step through  *)
(* PasswordGenerator.generate_password.  What is typed for the length is   *)
(* an integer or a text int() rejects; every secrets.choice is any of      *)
(* MaxChoices characters spread over the string it chooses from, and the   *)
(* shuffle is any permutation.                                             *)
(***************************************************************************)

ascii_lowercase == [i \in 1..26 |-> 96 + i]

ascii_uppercase == [i \in 1..26 |-> 64 + i]

digits == [i \in 1..10 |-> 47 + i]

symbols(use_symbols) ==
    IF use_symbols
    THEN Text(<<"!", "@", "#", "$", "%", "^", "&", "*", "(", ")", ",", ".", "?", "\"", ":", "{", "}", "|", "<", ">">>)
    ELSE <<>>

all_chars(use_symbols) == ascii_lowercase \o ascii_uppercase \o digits \o symbols(use_symbols)

\* The outcomes of secrets.choice(chars) considered.
secrets_choice(chars) ==
    {chars[1 + ((k * Len(chars)) \div MaxChoices)] : k \in 0..(MaxChoices - 1)}

\* The outcomes of SystemRandom().shuffle(password).
shuffle(password) ==
    {[i \in DOMAIN password |-> password[f[i]]] : f \in Permutations(DOMAIN password)}

\* password = [choice(lowercase), choice(uppercase), choice(digits)], and
\* choice(symbols) appended if use_symbols
first_characters(length, use_symbols, l, u, d, s) ==
    <<l, u, d>> \o (IF use_symbols THEN <<s>> ELSE <<>>)

\* What is typed at "Password length": valid is whether int() accepts it.
LengthInputs ==
    {[valid |-> TRUE, length |-> n] : n \in (-1)..MaxLength} \cup {[valid |-> FALSE, length |-> 0]}

InitGenerate ==
    /\ db = InitDb
    /\ state_transactions = <<>>
    /\ last \in {[op |-> "input", length |-> i, use_symbols |-> b] :
                    i \in LengthInputs, b \in BOOLEAN}
    /\ issued = <<>>
    /\ conn = [k \in Conns |-> NoConn]
    /\ steps = 0

Generating(length, use_symbols, password) ==
    [op |-> "generate_password", length |-> length, use_symbols |-> use_symbols,
     password |-> password]

\* except ValueError: "Invalid length entered"
GenInvalidLength ==
    /\ last.op = "input"
    /\ ~last.length.valid
    /\ last' = [op |-> "invalid_length"]
    /\ UNCHANGED <<db, state_transactions, issued, conn, steps>>

\* generate_password is entered and the list of one character per type is built.
GenStart ==
    /\ last.op = "input"
    /\ last.length.valid
    /\ \E l \in secrets_choice(ascii_lowercase), u \in secrets_choice(ascii_uppercase),
          d \in secrets_choice(digits), s \in secrets_choice(symbols(TRUE)) :
           last' = Generating(last.length.length, last.use_symbols,
                              first_characters(last.length.length, last.use_symbols, l, u, d, s))
    /\ UNCHANGED <<db, state_transactions, issued, conn, steps>>

\* one round of "for _ in range(length - len(password))"
GenFill ==
    /\ last.op = "generate_password"
    /\ Len(last.password) < last.length
    /\ \E c \in secrets_choice(all_chars(last.use_symbols)) :
           last' = Generating(last.length, last.use_symbols, Append(last.password, c))
    /\ UNCHANGED <<db, state_transactions, issued, conn, steps>>

\* the loop is over: shuffle, join and return; main prints the password and
\* its analysis.
GenReturn ==
    /\ last.op = "generate_password"
    /\ Len(last.password) >= last.length
    /\ \E password \in shuffle(last.password) :
           last' = [op |-> "generated", length |-> last.length,
                    use_symbols |-> last.use_symbols, password |-> password,
                    result |-> analyze_strength(password)]
    /\ UNCHANGED <<db, state_transactions, issued, conn, steps>>

NextGenerate == GenInvalidLength \/ GenStart \/ GenFill \/ GenReturn

SpecGenerate == InitGenerate /\ [][NextGenerate]_vars

(***************************************************************************)
(* SimpleStorage: passwords.json and the XOR "encryption" of its entries.  *)
(* str.encode()/bytes.decode() are UTF-8, a bytes object is a sequence of  *)
(* integers 0..255, and the base64 text is a text like any other.          *)
(***************************************************************************)

\* a ^ b on non-negative integers
RECURSIVE Xor(_, _)
Xor(a, b) ==
    IF a = 0 THEN b
    ELSE IF b = 0 THEN a
    ELSE ((a + b) % 2) + 2 * Xor(a \div 2, b \div 2)

\* str.encode() raises UnicodeEncodeError on a surrogate code point.
encodable(text) == \A i \in DOMAIN text : text[i] \notin 55296..57343

utf8_encode_char(c) ==
    IF c < 128 THEN <<c>>
    ELSE IF c < 2048 THEN <<192 + (c \div 64), 128 + (c % 64)>>
    ELSE IF c < 65536 THEN <<224 + (c \div 4096), 128 + ((c \div 64) % 64), 128 + (c % 64)>>
    ELSE <<240 + (c \div 262144), 128 + ((c \div 4096) % 64),
           128 + ((c \div 64) % 64), 128 + (c % 64)>>

RECURSIVE utf8_encode(_)
utf8_encode(text) ==
    IF text = <<>> THEN <<>> ELSE utf8_encode_char(Head(text)) \o utf8_encode(Tail(text))

\* The number of bytes of the UTF-8 sequence that starts bytes b, 0 if b
\* starts with no valid sequence (bytes.decode() raises UnicodeDecodeError).
utf8_width(b) ==
    LET cont(i) == Len(b) >= i /\ b[i] \in 128..191
    IN  IF b[1] < 128 THEN 1
        ELSE IF b[1] \in 194..223 /\ cont(2) THEN 2
        ELSE IF b[1] = 224 /\ Len(b) >= 2 /\ b[2] \in 160..191 /\ cont(3) THEN 3
        ELSE IF b[1] \in (225..236) \cup (238..239) /\ cont(2) /\ cont(3) THEN 3
        ELSE IF b[1] = 237 /\ Len(b) >= 2 /\ b[2] \in 128..159 /\ cont(3) THEN 3
        ELSE IF b[1] = 240 /\ Len(b) >= 2 /\ b[2] \in 144..191 /\ cont(3) /\ cont(4) THEN 4
        ELSE IF b[1] \in 241..243 /\ cont(2) /\ cont(3) /\ cont(4) THEN 4
        ELSE IF b[1] = 244 /\ Len(b) >= 2 /\ b[2] \in 128..143 /\ cont(3) /\ cont(4) THEN 4
        ELSE 0

\* The code point of the n-byte sequence that starts b.
utf8_value(b, n) ==
    IF n = 1 THEN b[1]
    ELSE IF n = 2 THEN (b[1] - 192) * 64 + (b[2] - 128)
    ELSE IF n = 3 THEN (b[1] - 224) * 4096 + (b[2] - 128) * 64 + (b[3] - 128)
    ELSE (b[1] - 240) * 262144 + (b[2] - 128) * 4096 + (b[3] - 128) * 64 + (b[4] - 128)

\* bytes.decode(): ok is FALSE where Python raises.
RECURSIVE utf8_decode(_)
utf8_decode(b) ==
    IF b = <<>> THEN [ok |-> TRUE, text |-> <<>>]
    ELSE LET n == utf8_width(b)
         IN  IF n = 0 THEN [ok |-> FALSE, text |-> <<>>]
             ELSE LET r == utf8_decode(SubSeq(b, n + 1, Len(b)))
                  IN  [ok |-> r.ok,
                       text |-> IF r.ok THEN <<utf8_value(b, n)>> \o r.text ELSE <<>>]

\* A-Z a-z 0-9 + /
Base64Alphabet == ascii_uppercase \o ascii_lowercase \o digits \o <<43, 47>>

\* '='
Base64Pad == 61

RECURSIVE b64encode(_)
b64encode(b) ==
    LET A(v) == Base64Alphabet[v + 1]
    IN  IF b = <<>> THEN <<>>
        ELSE IF Len(b) = 1
        THEN <<A(b[1] \div 4), A((b[1] % 4) * 16), Base64Pad, Base64Pad>>
        ELSE IF Len(b) = 2
        THEN <<A(b[1] \div 4), A((b[1] % 4) * 16 + (b[2] \div 16)),
               A((b[2] % 16) * 4), Base64Pad>>
        ELSE <<A(b[1] \div 4), A((b[1] % 4) * 16 + (b[2] \div 16)),
               A((b[2] % 16) * 4 + (b[3] \div 64)), A(b[3] % 64)>>
             \o b64encode(SubSeq(b, 4, Len(b)))

\* The value of a character of the alphabet.
Base64Value(c) == (CHOOSE i \in DOMAIN Base64Alphabet : Base64Alphabet[i] = c) - 1

\* base64.b64decode on a text made of whole groups of four characters of the
\* alphabet, padded with '=' in the last group; ok is FALSE on any other text
\* (binascii.Error on the texts b64encode does not produce is not modelled
\* further: passwords.json holds only what save_password wrote).
RECURSIVE b64decode(_)
b64decode(t) ==
    LET InAlphabet(c) == \E i \in DOMAIN Base64Alphabet : Base64Alphabet[i] = c
        V(i) == Base64Value(t[i])
    IN  IF t = <<>> THEN [ok |-> TRUE, bytes |-> <<>>]
        ELSE IF Len(t) < 4 \/ ~InAlphabet(t[1]) \/ ~InAlphabet(t[2])
        THEN [ok |-> FALSE, bytes |-> <<>>]
        ELSE IF t[3] = Base64Pad /\ t[4] = Base64Pad /\ Len(t) = 4
        THEN [ok |-> TRUE, bytes |-> <<V(1) * 4 + (V(2) \div 16)>>]
        ELSE IF InAlphabet(t[3]) /\ t[4] = Base64Pad /\ Len(t) = 4
        THEN [ok |-> TRUE,
              bytes |-> <<V(1) * 4 + (V(2) \div 16), (V(2) % 16) * 16 + (V(3) \div 4)>>]
        ELSE IF InAlphabet(t[3]) /\ InAlphabet(t[4])
        THEN LET r == b64decode(SubSeq(t, 5, Len(t)))
             IN  [ok |-> r.ok,
                  bytes |-> IF r.ok
                            THEN <<V(1) * 4 + (V(2) \div 16), (V(2) % 16) * 16 + (V(3) \div 4),
                                   (V(3) % 4) * 64 + V(4)>> \o r.bytes
                            ELSE <<>>]
        ELSE [ok |-> FALSE, bytes |-> <<>>]

\* hashlib.sha256(password.encode()).hexdigest(), for the master passwords used
\* here: the digests Python computes.
_create_key(password) ==
    IF password = Text(<<"m", "a", "s", "t", "e", "r", "1">>)
    THEN \* b07f3fc75999732d068489fad851944e09aa103288130173555c0ef2a6c13dd6
         Text(<<"b", "0", "7", "f", "3", "f", "c", "7", "5", "9", "9", "9", "7", "3", "2", "d",
               "0", "6", "8", "4", "8", "9", "f", "a", "d", "8", "5", "1", "9", "4", "4", "e",
               "0", "9", "a", "a", "1", "0", "3", "2", "8", "8", "1", "3", "0", "1", "7", "3",
               "5", "5", "5", "c", "0", "e", "f", "2", "a", "6", "c", "1", "3", "d", "d", "6">>)
    ELSE IF password = Text(<<"m", "a", "s", "t", "e", "r", "2">>)
    THEN \* ee33bacb9843d3b4bac37e425b203d8aad4e08c6773d21a10533d66cd6bb7c02
         Text(<<"e", "e", "3", "3", "b", "a", "c", "b", "9", "8", "4", "3", "d", "3", "b", "4",
               "b", "a", "c", "3", "7", "e", "4", "2", "5", "b", "2", "0", "3", "d", "8", "a",
               "a", "d", "4", "e", "0", "8", "c", "6", "7", "7", "3", "d", "2", "1", "a", "1",
               "0", "5", "3", "3", "d", "6", "6", "c", "d", "6", "b", "b", "7", "c", "0", "2">>)
    ELSE <<>>

\* for i, char in enumerate(bytes): char ^ key_bytes[i % len(key_bytes)]
xor_with_key(bytes, key_bytes) ==
    [i \in DOMAIN bytes |-> Xor(bytes[i], key_bytes[((i - 1) % Len(key_bytes)) + 1])]

_simple_encrypt(text, key) == b64encode(xor_with_key(utf8_encode(text), utf8_encode(key)))

\* returns None (none is TRUE) where the try block raises
_simple_decrypt(encrypted_text, key) ==
    LET encrypted_bytes == b64decode(utf8_encode(encrypted_text))
        decrypted == utf8_decode(xor_with_key(encrypted_bytes.bytes, utf8_encode(key)))
    IN  IF encrypted_bytes.ok /\ decrypted.ok
        THEN [none |-> FALSE, text |-> decrypted.text]
        ELSE [none |-> TRUE, text |-> <<>>]

\* save_password: the value returned and passwords.json after it.  The entry's
\* 'created' and 'modified' times are left out: no operation reads them.
save_password(file, master_key, service, username, password, notes) ==
    IF encodable(password)
    THEN [result |-> TRUE,
          file |-> [s \in DOMAIN file \cup {service} |->
                       IF s = service
                       THEN [username |-> username,
                             password |-> _simple_encrypt(password, master_key),
                             notes |-> notes]
                       ELSE file[s]]]
    ELSE [result |-> FALSE, file |-> file]

\* get_password: None, or the entry with its password decrypted.
\* "if decrypted_password:" is false for None and for the empty text.
get_password(file, master_key, service) ==
    IF service \in DOMAIN file
    THEN LET decrypted_password == _simple_decrypt(file[service].password, master_key)
         IN  IF ~decrypted_password.none /\ decrypted_password.text # <<>>
             THEN [none |-> FALSE, password |-> decrypted_password.text]
             ELSE [none |-> TRUE, password |-> <<>>]
    ELSE [none |-> TRUE, password |-> <<>>]

delete_password(file, service) ==
    IF service \in DOMAIN file
    THEN [result |-> TRUE, file |-> [s \in DOMAIN file \ {service} |-> file[s]]]
    ELSE [result |-> FALSE, file |-> file]

(***************************************************************************)
(* SpecStorage: the methods of SimpleStorage called on one passwords.json, *)
(* each through a SimpleStorage built with some master password.  db is    *)
(* the content of the file (no file: no entries).                          *)
(***************************************************************************)

MasterPasswords == {Text(<<"m", "a", "s", "t", "e", "r", "1">>), Text(<<"m", "a", "s", "t", "e", "r", "2">>)}

Services == {"mail", "bank"}

\* 'hunter2', 'a', the empty text, 'pässwörd' and a text holding a lone
\* surrogate (what getpass returns for a byte that is not UTF-8).
StoredPasswords ==
    { Text(<<"h", "u", "n", "t", "e", "r", "2">>), Text(<<"a">>), <<>>,
      <<112, 228, 115, 115, 119, 246, 114, 100>>, <<120, 56448>> }

InitStorage ==
    /\ db = EmptyRows
    /\ state_transactions = <<>>
    /\ last = [op |-> "init"]
    /\ issued = <<>>
    /\ conn = [k \in Conns |-> NoConn]
    /\ steps = 0

SavePassword(master_password, service, password) ==
    LET r == save_password(db, _create_key(master_password), service, "user", password, "")
    IN  /\ db' = r.file
        /\ last' = [op |-> "save_password", master_password |-> master_password,
                    service |-> service, password |-> password,
                    result |-> r.result, pre |-> db]
        /\ UNCHANGED <<state_transactions, issued, conn, steps>>

\* storage.get_password(service) and what main reports of it.
GetPassword(master_password, service) ==
    LET r == get_password(db, _create_key(master_password), service)
    IN  /\ last' = [op |-> "get_password", master_password |-> master_password,
                    service |-> service, none |-> r.none, password |-> r.password,
                    reported |-> IF r.none THEN "Could not decrypt password"
                                 ELSE "Password for service",
                    pre |-> db]
        /\ UNCHANGED <<db, state_transactions, issued, conn, steps>>

DeletePassword(master_password, service) ==
    LET r == delete_password(db, service)
    IN  /\ db' = r.file
        /\ last' = [op |-> "delete_password", master_password |-> master_password,
                    service |-> service, result |-> r.result, pre |-> db]
        /\ UNCHANGED <<state_transactions, issued, conn, steps>>

NextStorage ==
    \/ \E m \in MasterPasswords, s \in Services, p \in StoredPasswords : SavePassword(m, s, p)
    \/ \E m \in MasterPasswords, s \in Services : GetPassword(m, s)
    \/ \E m \in MasterPasswords, s \in Services : DeletePassword(m, s)

SpecStorage == InitStorage /\ [][NextStorage]_vars

(***************************************************************************)
(* Derived quantities used by the properties                               *)
(***************************************************************************)

RECURSIVE SumOver(_, _)
SumOver(T, S) ==
    IF S = {} THEN MZero
    ELSE LET i == CHOOSE j \in S : TRUE
         IN  MAdd(T[i].amount, SumOver(T, S \ {i}))

\* The sum of the amounts of the transactions of account a in store D.
LedgerSum(D, a) ==
    SumOver(D.transactions,
            {i \in DOMAIN D.transactions : D.transactions[i].account_id = a})

Present(D, transaction_id) == transaction_id \in DOMAIN D.transactions

\* The registry row exists and its is_active column is 1.
ExistsActive(rows, id) == id \in DOMAIN rows /\ rows[id].is_active = 1

(***************************************************************************)
(* Properties of the ledger, checked under Spec                            *)
(***************************************************************************)

\* C1 (balance invariant): after every add, update or delete, successful or
\* failed, in any sequence, the stored balance of each account equals the sum
\* of the amounts of the transactions whose account_id is that account.
Inv_C1_BalanceInvariant ==
    \A a \in DOMAIN db.accounts : db.accounts[a].balance = LedgerSum(db, a)

\* C1 witness: an update has just changed the amount of one of two stored
\* transactions, and its account carries a non-zero balance.
Witness_C1 ==
    /\ last.op = "update"
    /\ last.result = TRUE
    /\ last.pre.transactions[last.id].amount # last.amount
    /\ Cardinality(DOMAIN db.transactions) = 2
    /\ db.accounts[db.transactions[last.id].account_id].balance # MZero

\* C4 (no zero amounts): add and update called with amount 0 are rejected and
\* leave the ledger and every balance unchanged; no state of the ledger holds
\* a transaction whose amount is zero.
Inv_C4_NoZeroAmounts ==
    /\ (last.op = "add" /\ last.amount = MZero)
          => (last.result = None /\ db = last.pre)
    /\ (last.op = "update" /\ last.amount = MZero)
          => (last.result = FALSE /\ db = last.pre)
    /\ \A i \in DOMAIN db.transactions : db.transactions[i].amount # MZero

\* C4 witness: an add with amount 0 naming an active account and an active
\* category (so nothing but the amount stands against it) has been rejected.
Witness_C4 ==
    /\ last.op = "add"
    /\ last.amount = MZero
    /\ AccountActive(last.pre, last.account_id)
    /\ CategoryActive(last.pre, last.category_id)
    /\ last.result = None
    /\ DOMAIN db.transactions # {}

\* C5 (referential validation on add): an add succeeds only if account_id names
\* an existing active account and category_id an existing active category;
\* otherwise it returns no id, stores no row and changes no balance.
Inv_C5_AddValidatesReferences ==
    last.op = "add" =>
        \/ /\ ExistsActive(last.pre.accounts, last.account_id)
           /\ ExistsActive(last.pre.categories, last.category_id)
        \/ /\ last.result = None
           /\ db = last.pre

\* C5 witness: an add with a non-zero amount and an active category, naming an
\* account that exists but has been deactivated, has been rejected.
Witness_C5 ==
    /\ last.op = "add"
    /\ last.amount # MZero
    /\ last.account_id \in DOMAIN last.pre.accounts
    /\ last.pre.accounts[last.account_id].is_active = 0
    /\ CategoryActive(last.pre, last.category_id)
    /\ last.result = None

\* C6 as claimed (update validates the category only when it changes): for a
\* transaction in the ledger, update is rejected with a reference error exactly
\* when the patch changes category_id to a missing or inactive category; an
\* update that keeps the current category is not rejected on category grounds.
Claim_C6_CategoryValidatedOnlyOnChange ==
    (last.op = "update" /\ Present(last.pre, last.id)) =>
        ((last.error = "reference") <=>
            /\ last.category_id # last.pre.transactions[last.id].category_id
            /\ ~ExistsActive(last.pre.categories, last.category_id))

\* C7 (update of an absent id): update_transaction_in_db called with an id that
\* is not in the ledger returns failure and leaves every row and every balance
\* unchanged.
Inv_C7_UpdateAbsentIsNoOp ==
    (last.op = "update" /\ ~Present(last.pre, last.id)) =>
        (last.result = FALSE /\ db = last.pre)

\* C7 witness: an update with an active category and a non-zero amount, naming
\* an id absent from a non-empty ledger, has returned failure.
Witness_C7 ==
    /\ last.op = "update"
    /\ ~Present(last.pre, last.id)
    /\ DOMAIN last.pre.transactions # {}
    /\ CategoryActive(last.pre, last.category_id)
    /\ last.amount # MZero
    /\ last.result = FALSE

\* C8 (delete): delete of an absent id returns failure and changes nothing;
\* delete of a present id removes exactly that row and subtracts its amount
\* from the balance of the owning account, and nothing else changes; an add
\* followed directly by the delete of the new id restores the balances to
\* their values before the add.
Inv_C8_Delete ==
    last.op = "delete" =>
        /\ ~Present(last.pre, last.id) => (last.result = FALSE /\ db = last.pre)
        /\ Present(last.pre, last.id) =>
             LET old == last.pre.transactions[last.id]
             IN  /\ last.result = TRUE
                 /\ DOMAIN db.transactions = DOMAIN last.pre.transactions \ {last.id}
                 /\ \A i \in DOMAIN db.transactions :
                        db.transactions[i] = last.pre.transactions[i]
                 /\ db.accounts[old.account_id].balance =
                        MSub(last.pre.accounts[old.account_id].balance, old.amount)
                 /\ \A a \in DOMAIN db.accounts :
                        /\ db.accounts[a].is_active = last.pre.accounts[a].is_active
                        /\ a # old.account_id => db.accounts[a] = last.pre.accounts[a]
                 /\ db.categories = last.pre.categories
                 /\ db.seq = last.pre.seq
        /\ last.undone.hit =>
             db.accounts[last.undone.account_id].balance =
                 last.undone.accounts[last.undone.account_id].balance

\* C8 witness: the transaction just added to an account that already held
\* another transaction has been deleted again.
Witness_C8 ==
    /\ last.op = "delete"
    /\ last.result = TRUE
    /\ last.undone.hit
    /\ last.undone.accounts[last.undone.account_id].balance # MZero
    /\ DOMAIN db.transactions # {}

\* C10 (ids unique and monotonic): every successful add returns an id strictly
\* greater than every id returned by an earlier add, also after deletions (ids
\* are never reused); a rejected add consumes no id, so the ids issued on a
\* fresh store have no gaps; the ids in the ledger are among those issued.
Inv_C10_IdsMonotonic ==
    /\ \A i, j \in DOMAIN issued : i < j => issued[i] < issued[j]
    /\ \A i \in DOMAIN issued : issued[i] = i
    /\ (last.op = "add" /\ last.result = None) => db.seq = last.pre.seq
    /\ DOMAIN db.transactions \subseteq {issued[i] : i \in DOMAIN issued}

\* C10 witness: a second id has been issued while the ledger was empty, the
\* first transaction having been deleted.
Witness_C10 ==
    /\ last.op = "add"
    /\ last.result = 2
    /\ last.pre.transactions = EmptyRows
    /\ last.pre.seq = 1

(***************************************************************************)
(* Properties of a console session, checked under SpecCli                  *)
(***************************************************************************)

\* |amount| >= 100,000,000
AtOrOverLimit(amount) == MAbs(amount).d >= AmountLimit

\* C3 (account immutability): no step changes the account_id of a transaction
\* that stays in the ledger, nor the AccountID/Account of a record that stays
\* in the in-memory list; a transaction is created, in the ledger and in the
\* list, with the account chosen for it.  So after any number of edits the
\* account is the one the transaction was created with.
Prop_C3_AccountImmutable ==
    [][ /\ \A i \in DOMAIN db.transactions \cap DOMAIN db'.transactions :
               db'.transactions[i].account_id = db.transactions[i].account_id
        /\ \A j \in DOMAIN state_transactions :
               \A k \in DOMAIN state_transactions' :
                   state_transactions[j].ID = state_transactions'[k].ID =>
                       /\ state_transactions'[k].AccountID = state_transactions[j].AccountID
                       /\ state_transactions'[k].Account = state_transactions[j].Account
        /\ (last'.op = "menu_add" /\ last'.result # None) =>
               /\ db'.transactions[last'.result].account_id = last'.account_id
               /\ state_transactions'[1].ID = last'.result
               /\ state_transactions'[1].AccountID = last'.account_id
               /\ state_transactions'[1].Account = AccountName(last'.account_id)
      ]_vars

\* C3 witness: an edit that changed the category and the amount of a
\* transaction of account 2 has been written to the ledger.
Witness_C3 ==
    /\ last.op = "menu_edit"
    /\ last.result = TRUE
    /\ last.account_id = 2
    /\ db.transactions[last.id].account_id = 2
    /\ last.pre.transactions[last.id].category_id # db.transactions[last.id].category_id
    /\ last.pre.transactions[last.id].amount # db.transactions[last.id].amount

\* C9 as claimed (magnitude bound on add): an add whose amount has magnitude
\* 100,000,000 or more is rejected and stores nothing, and no transaction in
\* the ledger ever has such an amount.
Claim_C9_MagnitudeBound ==
    /\ (last.op \in {"add", "menu_add"} /\ AtOrOverLimit(last.amount))
          => (last.result = None /\ db = last.pre)
    /\ \A i \in DOMAIN db.transactions : ~AtOrOverLimit(db.transactions[i].amount)

(***************************************************************************)
(* Properties of a mutation seen from other connections, under SpecTx      *)
(***************************************************************************)

\* The statement as a whole: row change and balance change.
WholeStatement(D, st) ==
    CASE st.kind = "insert" ->
             InsertStmt(D, st.account_id, st.category_id, st.amount,
                        st.description, st.transaction_date)
      [] st.kind = "update" ->
             UpdateStmt(D, st.id, st.category_id, st.amount,
                        st.description, st.transaction_date)
      [] st.kind = "delete" -> DeleteStmt(D, st.id)

\* C2 (all-or-nothing): while a mutation is open nothing of it is committed; a
\* mutation that commits commits its row change and its balance change
\* together; one that fails leaves the store as it was; and what another
\* connection reads at any moment has every balance in step with its rows.
Inv_C2_AllOrNothing ==
    /\ \A k \in Conns : conn[k].pc # "closed" => db = conn[k].pre
    /\ last.op = "commit" => db = WholeStatement(last.pre, last.stmt)
    /\ last.op = "rollback" => db = last.pre
    /\ last.op = "read" =>
           \A a \in DOMAIN last.seen.accounts :
               last.seen.accounts[a].balance = LedgerSum(last.seen, a)

\* C2 witness: a connection has read the store while another connection had
\* applied the row change of an update of the amount but not yet its trigger.
Witness_C2 ==
    /\ last.op = "read"
    /\ last.during = "row"
    /\ last.stmt.kind = "update"
    /\ \E k \in Conns :
           /\ conn[k].pc = "row"
           /\ conn[k].work.transactions[conn[k].stmt.id].amount #
                  db.transactions[conn[k].stmt.id].amount
           /\ conn[k].work.accounts = db.accounts

(***************************************************************************)
(* Properties of the query operations, checked under SpecCli               *)
(***************************************************************************)

LedgerTotal(D) == SumOver(D.transactions, DOMAIN D.transactions)

\* C13 as claimed (totalNet): whatever adds, edits and deletes, successful or
\* failed, came before it in the session, the net amount View Transactions
\* prints is the signed sum of the amounts of the transactions in the ledger.
Claim_C13_NetIsLedgerTotal ==
    last.op = "menu_view" => last.amount = LedgerTotal(db)

(***************************************************************************)
(* Properties of the registries, checked under SpecAdmin and Spec          *)
(***************************************************************************)

\* The transactions of store D that name account a / category c.
OfAccount(D, a) == {i \in DOMAIN D.transactions : D.transactions[i].account_id = a}

OfCategory(D, c) == {i \in DOMAIN D.transactions : D.transactions[i].category_id = c}

\* C14 (restrict on hard delete): a hard delete of an account or category that
\* at least one transaction references fails and leaves the registry row and
\* every transaction as they were; a hard delete succeeds only when nothing
\* references the row, and then removes that row alone.  So every transaction
\* always names an account and a category that exist.
Inv_C14_RestrictOnHardDelete ==
    /\ last.op = "hard_delete_account" =>
           /\ OfAccount(last.pre, last.account_id) # {} =>
                  (last.result = FALSE /\ db = last.pre)
           /\ last.result = TRUE =>
                  /\ OfAccount(last.pre, last.account_id) = {}
                  /\ DOMAIN db.accounts = DOMAIN last.pre.accounts \ {last.account_id}
                  /\ \A x \in DOMAIN db.accounts : db.accounts[x] = last.pre.accounts[x]
                  /\ db.transactions = last.pre.transactions
                  /\ db.categories = last.pre.categories
    /\ last.op = "hard_delete_category" =>
           /\ OfCategory(last.pre, last.category_id) # {} =>
                  (last.result = FALSE /\ db = last.pre)
           /\ last.result = TRUE =>
                  /\ OfCategory(last.pre, last.category_id) = {}
                  /\ DOMAIN db.categories = DOMAIN last.pre.categories \ {last.category_id}
                  /\ \A x \in DOMAIN db.categories : db.categories[x] = last.pre.categories[x]
                  /\ db.transactions = last.pre.transactions
                  /\ db.accounts = last.pre.accounts
    /\ \A i \in DOMAIN db.transactions :
           /\ db.transactions[i].account_id \in DOMAIN db.accounts
           /\ db.transactions[i].category_id \in DOMAIN db.categories

\* C14 witness: the hard delete of a category that two transactions reference
\* has failed, after the hard delete of an unreferenced account had succeeded.
Witness_C14 ==
    /\ last.op = "hard_delete_category"
    /\ Cardinality(OfCategory(last.pre, last.category_id)) = 2
    /\ last.result = FALSE
    /\ last.error = "inuse"
    /\ Cardinality(DOMAIN db.accounts) = 1

Inv_C19_ExactDelta ==
    /\ (last.op = "add" /\ last.result # None) =>
           /\ db.accounts[last.account_id].balance =
                  MAdd(last.pre.accounts[last.account_id].balance, last.amount)
           /\ \A x \in DOMAIN db.accounts :
                  x # last.account_id => db.accounts[x] = last.pre.accounts[x]
    /\ (last.op = "update" /\ last.result = TRUE) =>
           LET old == last.pre.transactions[last.id]
           IN  /\ db.accounts[old.account_id].balance =
                      MAdd(last.pre.accounts[old.account_id].balance,
                           MSub(last.amount, old.amount))
               /\ last.amount = old.amount =>
                      db.accounts[old.account_id].balance =
                          last.pre.accounts[old.account_id].balance
               /\ \A x \in DOMAIN db.accounts :
                      x # old.account_id => db.accounts[x] = last.pre.accounts[x]
    /\ (last.op = "delete" /\ last.result = TRUE) =>
           \A x \in DOMAIN db.accounts :
               x # last.pre.transactions[last.id].account_id =>
                   db.accounts[x] = last.pre.accounts[x]

\* C19 witness: an update has changed only the category of a transaction, its
\* amount staying, while the other account holds a non-zero balance.
Witness_C19 ==
    /\ last.op = "update"
    /\ last.result = TRUE
    /\ last.amount = last.pre.transactions[last.id].amount
    /\ last.category_id # last.pre.transactions[last.id].category_id
    /\ \E x \in DOMAIN db.accounts :
           /\ x # db.transactions[last.id].account_id
           /\ db.accounts[x].balance # MZero

(***************************************************************************)
(* Further properties of a console session (SpecCli) and of the ledger     *)
(* functions under storage failures (Spec)                                 *)
(***************************************************************************)

Claim_C18_StorageFailuresContained ==
    last.op = "storage_failure" =>
        /\ ~last.raised
        /\ last.result = FailureValue(last.fn)
        /\ db = last.pre

\* C20 as claimed (the cache mirrors the database): after every add, edit or
\* delete of the menu, successful or failed, the records of state.transactions
\* are the rows of the transactions table, field for field; so a failed edit
\* leaves the cached record with its values from before the edit.
Claim_C20_CacheMirrorsDb ==
    last.op \in {"menu_add", "menu_edit", "menu_delete"} =>
        /\ {state_transactions[k] : k \in DOMAIN state_transactions} =
               {RowRecord(db, i) : i \in DOMAIN db.transactions}
        /\ Len(state_transactions) = Cardinality(DOMAIN db.transactions)

\* The ids of the records of a list, in the order of the list.
IdsOf(list) == [p \in DOMAIN list |-> list[p].ID]

\* C21 as claimed (the in-memory list keeps the listing order): whatever adds,
\* edits and deletes came before it in the session, the order in which View
\* Transactions shows state.transactions is the order in which a fresh
\* load_transactions_from_db would return the transactions (date descending,
\* then id descending).
Claim_C21_CacheKeepsListingOrder ==
    last.op = "menu_view" =>
        \E list \in load_transactions_from_db(db) :
            IdsOf(state_transactions) = IdsOf(list)

(***************************************************************************)
(* Properties of get_amount, checked under SpecAmount                      *)
(***************************************************************************)

\* The entry is a number whose value is zero / has magnitude 100,000,000 or more.
EntryIsZero(t) == t.kind = "number" /\ t.raw.d = 0 /\ t.raw.m = 0

EntryOutOfBound(t) ==
    /\ t.kind = "number"
    /\ \/ t.raw.d >= AmountLimit
       \/ t.raw.d < -AmountLimit
       \/ (t.raw.d = -AmountLimit /\ t.raw.m = 0)

\* C22 as claimed (get_amount only returns accepted amounts): on whatever
\* sequence of entries get_amount returns, the value returned is a number that
\* is not zero and whose magnitude is strictly less than 100,000,000; an entry
\* that is zero, out of bound or not a number is answered with a new prompt
\* and never returned.
Claim_C22_ReturnsAcceptedAmount ==
    last.op = "get_amount" =>
        /\ last.returned =>
               /\ ~last.nan
               /\ last.value # MZero
               /\ ~AtOrOverLimit(last.value)
        /\ (EntryIsZero(last.entry) \/ EntryOutOfBound(last.entry)
                \/ last.entry.kind = "text") => ~last.returned

(***************************************************************************)
(* Properties of the trigger chain of an UPDATE, checked under Spec        *)
(***************************************************************************)

\* C23 (one update adjusts the balance once and terminates): an update of a
\* transaction in the ledger with an active category and a non-zero amount
\* succeeds, which it does only if its chain of triggers ends; in that chain
\* the body of update_transaction_timestamp runs once (its nested UPDATE does
\* not fire it again) and the body of update_balance_on_update runs once (the
\* nested UPDATE does not fire it), so that the balance of the owning account
\* moves by new - old once, not twice.
Inv_C23_TriggersRunOnce ==
    (/\ last.op = "update"
     /\ Present(last.pre, last.id)
     /\ ExistsActive(last.pre.categories, last.category_id)
     /\ last.amount # MZero) =>
        LET old   == last.pre.transactions[last.id]
            new   == db.transactions[last.id]
            chain == after_update_triggers(last.pre.accounts, old, new,
                                           UpdateColumns, {}, 1)
            delta == MSub(last.amount, old.amount)
        IN  /\ last.result = TRUE
            /\ chain.ok
            /\ chain.timestamp_runs = 1
            /\ chain.balance_runs = 1
            /\ db.accounts = chain.accounts
            /\ db.accounts[old.account_id].balance =
                   MAdd(last.pre.accounts[old.account_id].balance, delta)
            /\ delta # MZero =>
                   db.accounts[old.account_id].balance #
                       MAdd(MAdd(last.pre.accounts[old.account_id].balance, delta), delta)

\* C23 witness: an update has changed the amount of a transaction of an
\* account that holds a second transaction.
Witness_C23 ==
    /\ last.op = "update"
    /\ last.result = TRUE
    /\ last.amount # last.pre.transactions[last.id].amount
    /\ Cardinality(OfAccount(db, db.transactions[last.id].account_id)) = 2

(***************************************************************************)
(* Properties of start-up, checked under SpecCli                           *)
(***************************************************************************)

\* C24 (start-up is idempotent over existing data): create_schema with
\* insert_default_data, run on a store that holds accounts, categories and
\* transactions, changes no transaction, resets no balance (that of Main
\* Checking included), adds no second row for a default account or category,
\* and leaves every balance equal to the sum of its account's transactions.
Inv_C24_StartupKeepsData ==
    last.op = "startup" =>
        /\ db.transactions = last.pre.transactions
        /\ db.seq = last.pre.seq
        /\ DOMAIN db.accounts = DOMAIN last.pre.accounts
        /\ \A a \in DOMAIN db.accounts :
               /\ db.accounts[a].balance = last.pre.accounts[a].balance
               /\ db.accounts[a].is_active = last.pre.accounts[a].is_active
               /\ db.accounts[a].balance = LedgerSum(db, a)
        /\ Cardinality({a \in DOMAIN db.accounts : AccountName(a) = "Main Checking"}) = 1
        /\ DOMAIN db.categories = DOMAIN last.pre.categories
        /\ db.categories = last.pre.categories

\* C24 witness: the program has been started on a store in which Main
\* Checking holds two transactions and a non-zero balance.
Witness_C24 ==
    /\ last.op = "startup"
    /\ Cardinality(OfAccount(db, 1)) = 2
    /\ db.accounts[1].balance # MZero
    /\ Len(state_transactions) = 2

(***************************************************************************)
(* Properties of two sessions on one store, checked under SpecTx           *)
(***************************************************************************)

\* C25 (two sessions on one store): while two connections interleave adds,
\* updates and deletes on the one database file, at most one of them has a
\* write transaction open, begun on the store as committed; and after every
\* commit, whichever connection made it and whichever made the one before,
\* every balance in the database equals the sum of its account's transactions.
Inv_C25_TwoSessions ==
    /\ Cardinality({k \in Conns : conn[k].pc # "closed"}) <= 1
    /\ \A k \in Conns : conn[k].pc # "closed" => conn[k].pre = db
    /\ last.op = "commit" =>
           \A a \in DOMAIN db.accounts : db.accounts[a].balance = LedgerSum(db, a)

\* C25 witness: connection 2 has committed an update that changed the amount
\* of a transaction, the commit before it having been made by connection 1.
Witness_C25 ==
    /\ last.op = "commit"
    /\ last.k = 2
    /\ last.committed = 1
    /\ last.stmt.kind = "update"
    /\ last.pre.transactions[last.stmt.id].amount # db.transactions[last.stmt.id].amount
    /\ db.accounts[db.transactions[last.stmt.id].account_id].balance # MZero

(***************************************************************************)
(* Properties of the password analyzer, checked under SpecAnalyze          *)
(***************************************************************************)

\* C26 (common-password cap): for every password whose lowercase form is in
\* the common-password set, analyze_strength returns a score of at most 25 and
\* a strength of 'Weak' or 'Very Weak', whatever the password's length and
\* character classes.
Inv_C26_CommonPasswordCap ==
    (last.op = "analyze_strength" /\ lower(last.password) \in common_passwords) =>
        /\ last.result.score <= 25
        /\ last.result.strength \in {"Weak", "Very Weak"}

\* C26 witness: a spelling of 'password123' with small letters, capitals and
\* digits (65 points before the dictionary check) has been analyzed.
Witness_C26 ==
    /\ last.op = "analyze_strength"
    /\ lower(last.password) \in common_passwords
    /\ last.result.length = 11
    /\ last.result.char_types = 3
    /\ last.result.score = 25

\* C27 (the score is on a 0..100 scale): for every password, the score that
\* analyze_strength returns, shown as 'Score: N/100', is between 0 and 100.
Claim_C27_ScoreWithinScale ==
    last.op = "analyze_strength" =>
        (last.result.score >= 0 /\ last.result.score <= 100)

(***************************************************************************)
(* Properties of the password generator, checked under SpecGenerate        *)
(***************************************************************************)

\* C28 (generated passwords): generate_password(length, use_symbols) returns a
\* password of exactly the requested length that contains at least one
\* lowercase letter, one uppercase letter, one digit and, when use_symbols is
\* true, one symbol, for every requested length and every outcome of the
\* random choices.
Claim_C28_GeneratedPassword ==
    last.op = "generated" =>
        /\ Len(last.password) = last.length
        /\ \E i \in DOMAIN last.password : last.password[i] \in 97..122
        /\ \E i \in DOMAIN last.password : last.password[i] \in 65..90
        /\ \E i \in DOMAIN last.password : last.password[i] \in 48..57
        /\ last.use_symbols => \E i \in DOMAIN last.password : last.password[i] \in Specials

(***************************************************************************)
(* Properties of the password storage, checked under SpecStorage           *)
(***************************************************************************)

\* The passwords that save_password, called under master password m, writes
\* as the entry e of passwords.json.
StoredUnder(e, m) ==
    {p \in StoredPasswords :
        encodable(p) /\ e.password = _simple_encrypt(p, _create_key(m))}

\* C29 (a wrong master password is detected): for a password stored under
\* master password M, get_password through a SimpleStorage built with a
\* different master password M' returns None (reported as 'Could not decrypt
\* password') and never an entry holding a password other than the one stored.
Claim_C29_WrongMasterDetected ==
    (last.op = "get_password" /\ last.service \in DOMAIN db) =>
        \A m \in MasterPasswords \ {last.master_password} :
            (/\ StoredUnder(db[last.service], m) # {}
             /\ StoredUnder(db[last.service], last.master_password) = {})
            => (last.none /\ last.reported = "Could not decrypt password")

\* C30 (encryption round trip): for every text t and key k,
\* _simple_decrypt(_simple_encrypt(t, k), k) = t, so that a password saved with
\* save_password and read back with get_password under the same master
\* password is returned unchanged.
Claim_C30_RoundTrip ==
    /\ \A t \in StoredPasswords, m \in MasterPasswords :
           encodable(t) =>
               _simple_decrypt(_simple_encrypt(t, _create_key(m)), _create_key(m))
                   = [none |-> FALSE, text |-> t]
    /\ (last.op = "get_password" /\ last.service \in DOMAIN db) =>
           \A p \in StoredUnder(db[last.service], last.master_password) :
               ~last.none /\ last.password = p

====
